---------------------------- MODULE Spec2Model ----------------------------
(***************************************************************************)
(* State-machine model of VixFixScalperStrategy                            *)
(* (src/hummingbot/strategy/vixfix_scalper/vixfix_scalper.py).             *)
(*                                                                         *)
(* Number representation.                                                  *)
(*   Decimal values (mid price, entry/target/stop price, realized pnl) are *)
(*   fixed-point integers: DecScale units make 1.0.  Mid prices are        *)
(*   multiples of PriceStep (0.1).  Python floats kept in price_history    *)
(*   are held in tenths, so float(d) is d \div PriceStep.                  *)
(*   None is NoneV, a raised exception of get_mid_price() is RaiseV.       *)
(*   Dollar amounts of the risk sizing (portfolio value, base and maximum  *)
(*   risk amount) are whole dollars.                                       *)
(*                                                                         *)
(* Fields that only gate logging output and are never read by the         *)
(* decision logic (current_unrealized_pnl, last_volatility_check) are      *)
(* left out.                                                               *)
(***************************************************************************)
EXTENDS Integers, Sequences, FiniteSets

\* ------------------------------------------------------------------------
\* Program constants
\* ------------------------------------------------------------------------
DecScale == 1000000
PriceStep == 100000

NoneV == -1
RaiseV == -2

Pd == 22
Bbl == 20
Mult == 2
Lb == 50
PhPct == 85
SmaWindow == 50
HistoryCap == 100

InitialPortfolioValue == 10000
BaseRiskAmount == 150
MaxRiskAmount == 300

BaseOrderAmountE3 == 1
ProfitTargetPctE3 == 3
InitialStopLossPctE3 == 5

\* Defaults of CMWilliamsVixMaker.__init__ (spreads in percent).
lookback_period == 22
bb_length == 20
bb_std == 2
stop_loss_spread == 5
take_profit_spread == 2
status_report_interval == 900

\* BasicOrderOpenCloseExampleConfig.close_order_delay
close_order_delay == 10

\* ------------------------------------------------------------------------
\* Bounds of the explored environment
\* ------------------------------------------------------------------------
\* The market may move only on a grid of accepted samples: every Stride
\* samples from WarmUp up to MoveUntil.
WarmUp == 50
Stride == 3
MoveUntil == 59
\* No more than MaxSamples price samples are accepted in a run.
MaxSamples == 62
\* Disturbed ticks in a run: a tick that ends before a sample is accepted
\* (market not ready, no usable price), or a tick in which one later price
\* read differs from the tick's first read.
MaxFaults == 1
\* Resolution of the maker's Williams Vix Fix value: WvfScale units make
\* 1 percent.
WvfScale == 100
\* Largest winning streak from which the stop sizing is exercised.
MaxWins == 6
\* The long run: up to MaxLongSamples accepted samples, enough to overflow
\* the price history; the market moves after the first sample and then
\* every LongStride samples.
MaxLongSamples == 102
LongStride == 50

\* Exit checks that took a branch in a run of direct calls.
MaxExits == 1
\* Ticks of a run of exit ticks in which one price read after the tick's
\* first two gives no price (0 or None).
MaxLateReads == 2

\* The maker: up to MaxMakerSamples reference prices are appended; the
\* market moves, and a tick is disturbed, only at sample lookback_period and
\* then every MakerStride samples; at most MaxMakerExtras disturbances
\* (active orders present, status report due, no usable price, a direct
\* call of the indicator) happen in a run.
MaxMakerSamples == 70
MakerStride == 20
MaxMakerExtras == 2
\* The timestamp of the first maker tick.
MakerStartTime == 1000
\* Fill events delivered in a run.
MaxDeliveries == 4
\* The controller's clock stops at MaxControllerTime.
MaxControllerTime == 25
\* Reference prices appended in a run of create_order_proposals() calls:
\* enough for a high-volatility signal.
MaxProposalSamples == 43

\* Mid prices the market collaborator can return: 98.5, 100.0, 100.3 and
\* 101.0.  98.5 and 100.3 are exactly the first stop and the target of an
\* entry at 100.0.
Prices == {985 * PriceStep, 1000 * PriceStep, 1003 * PriceStep,
           1010 * PriceStep}

\* The price of the first accepted sample.
StartPrice == 985 * PriceStep

\* A negative mid price (-0.1).
NegPrice == 0 - PriceStep

\* Everything one get_mid_price() call can produce.
Reads == Prices \cup {0, NoneV, RaiseV}

\* Reference prices of the maker's market: 90.0 and 100.0 (every indicator
\* value over them is exact in binary floating point), the first one 100.0.
MakerPrices == {900 * PriceStep, 1000 * PriceStep}

MakerStartPrice == 1000 * PriceStep

\* Everything the maker's get_mid_price() call can produce.
MakerReads == MakerPrices \cup {0, NoneV, RaiseV}

\* What market.get_position() can give: no position (None) or an amount.
PositionReads == {NoneV, 0, 10, 0 - 20}

\* Fill events: order identifier, side, price (0 or 100.0), amount 1.
FillEvents ==
    [order_id : {1, 2}, trade_type : {"BUY", "SELL"},
     price : {0, 100 * DecScale}, amount : {1}]

VARIABLES
    price_history,          \* self.price_history (floats, in tenths)
    in_position,            \* self.in_position
    entry_price,            \* self.entry_price
    profit_target_price,    \* self.profit_target_price
    stop_loss_price,        \* self.stop_loss_price
    last_stop_loss,         \* self._last_stop_loss
    consecutive_wins,       \* self.consecutive_wins
    current_portfolio_value,\* self.current_portfolio_value
    total_realized_pnl,     \* self.total_realized_pnl
    total_trades,           \* self.total_trades
    winning_trades,         \* self.winning_trades
    losing_trades,          \* self.losing_trades
    last_timestamp,         \* self._last_timestamp
    ready_to_trade,         \* self._ready_to_trade
    last_price_log,         \* self._last_price_log
    accepted,               \* environment: number of samples appended so far
    faults,                 \* environment: disturbed ticks so far
    last_call,              \* observation: the last operation and what it read
    \* CMWilliamsVixMaker
    _price_history,         \* self._price_history (floats, in tenths)
    _vix_history,           \* self._vix_history (WvfScale units per 1%)
    _last_trade_price,      \* self._last_trade_price
    _last_timestamp,        \* self._last_timestamp
    _current_timestamp,     \* self._current_timestamp
    placed_orders,          \* orders handed to buy/sell_with_specific_market
    order_type_has_stop,    \* build: whether OrderType.STOP resolves
    delivered,              \* environment: the fill events delivered so far
    maker_samples,          \* environment: reference prices appended so far
    maker_extras,           \* environment: disturbances so far
    maker_call,             \* observation: the maker's last operation
    _min_spread,            \* self._min_spread (basis points)
    _max_spread,            \* self._max_spread (basis points)
    _high_volatility_multiplier,  \* in tenths
    _low_volatility_multiplier,   \* in tenths
    _max_position_size,     \* self._max_position_size
    _order_amount,          \* self._order_amount
    proposal_call,          \* observation: the last create_order_proposals()
    \* BasicOrderOpenClose
    open_order_placed,      \* self.open_order_placed
    closed_order_placed,    \* self.closed_order_placed
    controller_last_timestamp,  \* self.last_timestamp
    now,                    \* environment: market_data_provider.time()
    emitted,                \* environment: the executor actions returned so far
    controller_call         \* observation: the last determine_executor_actions()

vars == <<price_history, in_position, entry_price, profit_target_price,
          stop_loss_price, last_stop_loss, consecutive_wins,
          current_portfolio_value, total_realized_pnl, total_trades,
          winning_trades, losing_trades, last_timestamp, ready_to_trade,
          last_price_log, accepted, faults, last_call,
          _price_history, _vix_history, _last_trade_price, _last_timestamp,
          _current_timestamp, placed_orders, order_type_has_stop, delivered,
          maker_samples, maker_extras, maker_call,
          _min_spread, _max_spread, _high_volatility_multiplier,
          _low_volatility_multiplier, _max_position_size, _order_amount,
          proposal_call,
          open_order_placed, closed_order_placed, controller_last_timestamp,
          now, emitted, controller_call>>

scalper_vars ==
    <<price_history, in_position, entry_price, profit_target_price,
      stop_loss_price, last_stop_loss, consecutive_wins,
      current_portfolio_value, total_realized_pnl, total_trades,
      winning_trades, losing_trades, last_timestamp, ready_to_trade,
      last_price_log, accepted, faults, last_call>>

proposal_vars ==
    <<_min_spread, _max_spread, _high_volatility_multiplier,
      _low_volatility_multiplier, _max_position_size, _order_amount,
      proposal_call>>

maker_vars ==
    <<_price_history, _vix_history, _last_trade_price, _last_timestamp,
      _current_timestamp, placed_orders, order_type_has_stop, delivered,
      maker_samples, maker_extras, maker_call, proposal_vars>>

controller_vars ==
    <<open_order_placed, closed_order_placed, controller_last_timestamp,
      now, emitted, controller_call>>

\* BasicOrderOpenClose.__init__ (lines 32-39); the clock starts at 1.
ControllerInit ==
    /\ open_order_placed = FALSE
    /\ closed_order_placed = FALSE
    /\ controller_last_timestamp = 0
    /\ now = 1
    /\ emitted = <<>>
    /\ controller_call = [op |-> "init", active |-> FALSE, held |-> FALSE,
                          mid_price |-> 0, time |-> 0, actions |-> <<>>,
                          raised |-> FALSE, misses |-> 0]

\* Nothing was proposed yet.
NoProposalCall ==
    [op |-> "init", ready |-> FALSE, price |-> NoneV, position |-> NoneV,
     high |-> FALSE, buy |-> <<>>, sell |-> <<>>]

\* Spreads of 1% and 5% (the examples of the configuration prompts), the
\* constructor's default multipliers 1.5 and 0.5, order amount 1 and the
\* default position limit of ten order amounts.
MakerConfigInit ==
    /\ _min_spread = 100
    /\ _max_spread = 500
    /\ _high_volatility_multiplier = 15
    /\ _low_volatility_multiplier = 5
    /\ _order_amount = 1
    /\ _max_position_size = 10
    /\ proposal_call = NoProposalCall

\* CMWilliamsVixMaker.__init__ (lines 68-75), before any tick or event.
MakerInit ==
    /\ _price_history = <<>>
    /\ _vix_history = <<>>
    /\ _last_trade_price = NoneV
    /\ _last_timestamp = 0
    /\ _current_timestamp = 0
    /\ placed_orders = <<>>
    /\ delivered = <<>>
    /\ maker_samples = 0
    /\ maker_extras = 0
    /\ maker_call = [op |-> "init", value |-> 0, signal |-> FALSE,
                     calcs |-> 0]


\* ------------------------------------------------------------------------
\* Arithmetic helpers
\* ------------------------------------------------------------------------
Min(a, b) == IF a <= b THEN a ELSE b

Abs(x) == IF x < 0 THEN 0 - x ELSE x

MaxOf(S) == CHOOSE x \in S : \A y \in S : x >= y

RECURSIVE SumOver(_, _, _)
SumOver(f, lo, hi) == IF lo > hi THEN 0 ELSE f[hi] + SumOver(f, lo, hi - 1)

\* Exact arithmetic on non-negative integers of any size, for the float
\* expressions whose operands are fractions: a number is the sequence of
\* its digits in base BigBase, lowest digit first, without leading zeros.
BigBase == 10000

RECURSIVE BigOf(_)
BigOf(n) == IF n = 0 THEN <<>> ELSE <<n % BigBase>> \o BigOf(n \div BigBase)

\* The number with column values cols[k..Len(cols)] plus carry.
RECURSIVE BigCarry(_, _, _)
BigCarry(cols, k, carry) ==
    IF k > Len(cols) THEN BigOf(carry)
    ELSE LET t == cols[k] + carry
         IN  <<t % BigBase>> \o BigCarry(cols, k + 1, t \div BigBase)

BigDigit(x, k) == IF k <= Len(x) THEN x[k] ELSE 0

BigAdd(x, y) ==
    LET m == IF Len(x) >= Len(y) THEN Len(x) ELSE Len(y)
    IN  BigCarry([k \in 1..m |-> BigDigit(x, k) + BigDigit(y, k)], 1, 0)

BigMul(x, y) ==
    IF x = <<>> \/ y = <<>> THEN <<>>
    ELSE BigCarry([k \in 1..(Len(x) + Len(y) - 1) |->
                     SumOver([i \in 1..k |-> BigDigit(x, i)
                                               * BigDigit(y, k + 1 - i)],
                             1, k)], 1, 0)

\* x * c for an integer c >= 0.
BigScale(x, c) == BigMul(x, BigOf(c))

RECURSIVE BigGeqFrom(_, _, _)
BigGeqFrom(x, y, k) ==
    IF k = 0 THEN TRUE
    ELSE IF x[k] # y[k] THEN x[k] > y[k]
    ELSE BigGeqFrom(x, y, k - 1)

BigGeq(x, y) ==
    IF Len(x) # Len(y) THEN Len(x) > Len(y) ELSE BigGeqFrom(x, y, Len(x))

\* The sum of the values of a function.
RECURSIVE BigSumOf(_)
BigSumOf(f) ==
    IF DOMAIN f = {} THEN <<>>
    ELSE LET c == CHOOSE e \in DOMAIN f : TRUE
         IN  BigAdd(f[c], BigSumOf([e \in DOMAIN f \ {c} |-> f[e]]))

RECURSIVE BigProduct(_)
BigProduct(S) ==
    IF S = {} THEN BigOf(1)
    ELSE LET c == CHOOSE e \in S : TRUE
         IN  BigScale(BigProduct(S \ {c}), c)

\* Fractions [num, den] with num >= 0 and den > 0.
FracLeq(x, y) == x.num * y.den <= y.num * x.den

FracMax(S) == CHOOSE x \in S : \A y \in S : FracLeq(y, x)

\* float(d) of a Decimal d, in tenths.
ToFloat(d) == d \div PriceStep

\* d * (Decimal("1") + pct) for pct = pctE3 / 1000.
TimesOnePlusE3(d, pctE3) == (d \div 1000) * (1000 + pctE3)

\* d * (Decimal("1") - Decimal(str(pct))) for pct = pctE5 / 100000.
TimesOneMinusE5(d, pctE5) == (d \div 100000) * (100000 - pctE5)

\* ------------------------------------------------------------------------
\* Risk sizing (enter_long / adjust_stop_loss)
\* ------------------------------------------------------------------------
\* The risk amount (times four) without the max_risk_amount cap.
RiskAmountX4Uncapped(wins) == BaseRiskAmount * (4 + wins)

\* Four times min(base_risk_amount * (1 + 0.25 * wins), max_risk_amount):
\* base * (1 + 0.25 w) = base * (4 + w) / 4, kept times four to stay integral.
RiskAmountX4(wins) ==
    Min(BaseRiskAmount * (4 + wins), MaxRiskAmount * 4)

\* float(risk_amount) / float(current_portfolio_value), in units of 1e-5.
\* Only evaluated for pv # 0 (pv = 0 raises ZeroDivisionError before).  A
\* negative pv gives the negated quotient.
StopLossPctE5(wins, pv) ==
    IF pv > 0 THEN (RiskAmountX4(wins) * 25000) \div pv
    ELSE 0 - ((RiskAmountX4(wins) * 25000) \div (0 - pv))

\* ------------------------------------------------------------------------
\* Entry signal (should_enter_long)
\* ------------------------------------------------------------------------
\* Row i of wvf = ((highest_close - low) / highest_close) * 100, where
\* highest_close is the rolling maximum over the Pd rows ending at i.
\* Defined for rows i >= Pd (earlier rows are NaN).  The value is kept as
\* the fraction num / den = (highest_close - low) / highest_close, of which
\* wvf is 100 times.
WvfAt(h, i) ==
    LET highest_close == MaxOf({h[j] : j \in (i - Pd + 1)..i})
    IN  [num |-> highest_close - h[i], den |-> highest_close]

\* Rows lo..hi of wvf, as a sequence.
RECURSIVE WvfRows(_, _, _)
WvfRows(h, lo, hi) ==
    IF lo > hi THEN <<>> ELSE Append(WvfRows(h, lo, hi - 1), WvfAt(h, hi))

\* current_wvf >= current_upper_band, with
\* upper_band = rolling(Bbl).mean + Mult * rolling(Bbl).std (sample std,
\* ddof = 1).  NaN (fewer than Bbl defined wvf rows) compares False.
\* With N = Bbl, S the sum and Q the sum of squares of the window:
\*   wvf >= S/N + Mult*sqrt((Q - S^2/N)/(N-1))
\*   <=> N*wvf - S >= 0 /\ (N*wvf - S)^2 * (N-1) >= Mult^2 * N * (N*Q - S^2)
\*   <=> N*wvf >= S /\ (N-1)*N^2*wvf^2 + (N-1 + Mult^2*N)*S^2
\*                        >= Mult^2*N^2*Q + 2*N*(N-1)*wvf*S
\* evaluated exactly: with D the product of the distinct denominators of
\* the window's non-zero rows, the rows with denominator H add up to
\* (sum of their numerators) * D/H, and their squares to
\* (sum of their squared numerators) * (D/H)^2.
\* The side of current_wvf with respect to current_upper_band, as real
\* numbers: "above", "equal" or "below"; for at least Bbl defined rows.
UpperBandSide(h) ==
    LET n == Len(h)
        w == WvfRows(h, n - Bbl + 1, n)
        dens == {w[i].den : i \in {k \in 1..Bbl : w[k].num # 0}}
        Over(H) == BigProduct(dens \ {H})
        Nums(H) ==
            SumOver([i \in 1..Bbl |->
                       IF w[i].den = H THEN w[i].num ELSE 0], 1, Bbl)
        Squares(H) ==
            SumOver([i \in 1..Bbl |->
                       IF w[i].den = H THEN w[i].num * w[i].num ELSE 0],
                    1, Bbl)
        S == BigSumOf([H \in dens |-> BigScale(Over(H), Nums(H))])
        Q == BigSumOf([H \in dens |->
                         BigScale(BigMul(Over(H), Over(H)), Squares(H))])
        W == BigScale(Over(w[Bbl].den), w[Bbl].num)
        lhs == BigAdd(BigScale(BigMul(W, W), (Bbl - 1) * Bbl * Bbl),
                      BigScale(BigMul(S, S), Bbl - 1 + Mult * Mult * Bbl))
        rhs == BigAdd(BigScale(Q, Mult * Mult * Bbl * Bbl),
                      BigScale(BigMul(W, S), 2 * Bbl * (Bbl - 1)))
    IN  IF ~BigGeq(BigScale(W, Bbl), S) THEN "below"
        ELSE IF lhs = rhs THEN "equal"
        ELSE IF BigGeq(lhs, rhs) THEN "above"
        ELSE "below"

\* The doubles of the comparison carry rounding errors: some wvf row is
\* not zero (a zero row is exact, and so are the sums of zero rows).
WvfRounds(h) == \E i \in Pd..Len(h) : WvfAt(h, i).num # 0

\* current_wvf and current_upper_band are equal as real numbers and were
\* computed with rounding: the float comparison can come out either way.
BandRounds(h) ==
    /\ Len(h) - Pd + 1 >= Bbl
    /\ UpperBandSide(h) = "equal"
    /\ WvfRounds(h)

\* current_wvf >= current_upper_band; tie is the outcome of the float
\* comparison when BandRounds(h).
AboveUpperBand(h, tie) ==
    IF Len(h) - Pd + 1 < Bbl THEN FALSE
    ELSE LET side == UpperBandSide(h)
         IN  IF side = "equal" /\ WvfRounds(h) THEN tie
             ELSE side # "below"

\* range_high = wvf.rolling(window=Lb).max() * ph at the last row, as a
\* fraction like WvfAt (defined once Lb wvf rows exist).
RangeHigh(h) ==
    LET n == Len(h)
        highest == FracMax({WvfAt(h, i) : i \in (n - Lb + 1)..n})
    IN  [num |-> PhPct * highest.num, den |-> 100 * highest.den]

\* current_wvf >= current_range_high.  NaN compares False.  Over Prices the
\* two are equal only when both are zero, which is exact in floating point.
AboveRangeHigh(h) ==
    LET n == Len(h)
    IN  IF n - Pd + 1 < Lb THEN FALSE
        ELSE FracLeq(RangeHigh(h), WvfAt(h, n))

VixSignal(h, tie) == AboveUpperBand(h, tie) \/ AboveRangeHigh(h)

\* float(current_price) and float(sma_50) are equal as real numbers and the
\* rolling sum was rounded (a sample that is no multiple of 0.5 has no
\* exact double): the float comparison can come out either way.
SmaRounds(h, price) ==
    LET n == Len(h)
    IN  /\ n >= SmaWindow
        /\ SmaWindow * ToFloat(price) = SumOver(h, n - SmaWindow + 1, n)
        /\ \E i \in 1..n : h[i] % 5 # 0

\* The SMA confirmation with price equal to the SMA accepted.
PriceAtOrAboveSma(h, price, tie) ==
    LET n == Len(h)
    IN  IF n < SmaWindow THEN FALSE
        ELSE IF SmaRounds(h, price) THEN tie
        ELSE SmaWindow * ToFloat(price) >= SumOver(h, n - SmaWindow + 1, n)

\* float(current_price) > float(sma_50); sma_50 is NaN below SmaWindow rows.
\* tie is the outcome of the float comparison when SmaRounds(h, price).
PriceAboveSma(h, price, tie) ==
    LET n == Len(h)
    IN  IF n < SmaWindow THEN FALSE
        ELSE IF SmaRounds(h, price) THEN tie
        ELSE SmaWindow * ToFloat(price) > SumOver(h, n - SmaWindow + 1, n)

\* The outcomes of the float comparisons of one should_enter_long() call
\* that rounding decides: .band for the upper band, .sma for the SMA.
Roundings == [band : BOOLEAN, sma : BOOLEAN]

NoRounding == [band |-> FALSE, sma |-> FALSE]

\* The outcomes that rounding can decide for history h and price read r.
\* The band comparison bears on the result only when price_above_sma can
\* be true.
RoundingsOf(h, r) ==
    LET smas == IF SmaRounds(h, r) THEN BOOLEAN ELSE {FALSE}
        confirmed == \E s \in smas : PriceAboveSma(h, r, s)
    IN  {[band |-> b, sma |-> s] :
            b \in IF confirmed /\ BandRounds(h) THEN BOOLEAN ELSE {FALSE},
            s \in smas}

\* should_enter_long(): r is what get_mid_price() gives at line 157.  A raised
\* read, or float(None), lands in the except branch, which returns False.
\* fl gives the outcomes of the comparisons that rounding decides.  Both
\* vix_signal and price_above_sma are computed before the `and` of line
\* 163, so the order of the conjuncts is immaterial.
ShouldEnterLong(h, r, fl) ==
    IF Len(h) < Pd THEN FALSE
    ELSE IF r = RaiseV \/ r = NoneV THEN FALSE
    ELSE PriceAboveSma(h, r, fl.sma) /\ VixSignal(h, fl.band)

\* ------------------------------------------------------------------------
\* The strategy object as a record, and its methods as record transformers.
\* Every method body sits in try/except Exception: an exception leaves the
\* assignments made before it in place and returns normally.
\* ------------------------------------------------------------------------
Self ==
    [in_position |-> in_position,
     entry_price |-> entry_price,
     profit_target_price |-> profit_target_price,
     stop_loss_price |-> stop_loss_price,
     last_stop_loss |-> last_stop_loss,
     consecutive_wins |-> consecutive_wins,
     current_portfolio_value |-> current_portfolio_value,
     total_realized_pnl |-> total_realized_pnl,
     total_trades |-> total_trades,
     winning_trades |-> winning_trades,
     losing_trades |-> losing_trades]

\* enter_long() with the profit target computed from the stop-loss percentage.
EnterLongWrongTargetPct(s, r) ==
    IF r = RaiseV \/ s.current_portfolio_value = 0 THEN s
    ELSE LET pct == StopLossPctE5(s.consecutive_wins, s.current_portfolio_value)
             s1 == [s EXCEPT !.in_position = TRUE, !.entry_price = r]
         IN  IF r = NoneV THEN s1
             ELSE [s1 EXCEPT
                     !.profit_target_price = TimesOnePlusE3(r, InitialStopLossPctE3),
                     !.stop_loss_price = TimesOneMinusE5(r, pct),
                     !.last_stop_loss = TimesOneMinusE5(r, pct)]

\* enter_long(): r is the price read at line 198.
\*   r raised                    -> nothing assigned
\*   portfolio value 0           -> ZeroDivisionError at line 207, nothing assigned
\*   r is None                   -> in_position and entry_price assigned, then
\*                                  None * Decimal raises TypeError at line 215
EnterLong(s, r) ==
    IF r = RaiseV \/ s.current_portfolio_value = 0 THEN s
    ELSE LET pct == StopLossPctE5(s.consecutive_wins, s.current_portfolio_value)
             s1 == [s EXCEPT !.in_position = TRUE, !.entry_price = r]
         IN  IF r = NoneV THEN s1
             ELSE [s1 EXCEPT
                     !.profit_target_price = TimesOnePlusE3(r, ProfitTargetPctE3),
                     !.stop_loss_price = TimesOneMinusE5(r, pct),
                     !.last_stop_loss = TimesOneMinusE5(r, pct)]

\* adjust_stop_loss(): r is the price read at line 174 (float(None) raises).
\* entry_price None raises TypeError at line 186.
AdjustStopLoss(s, r) ==
    IF ~s.in_position THEN s
    ELSE IF r = RaiseV \/ r = NoneV THEN s
    ELSE IF s.current_portfolio_value = 0 THEN s
    ELSE IF s.entry_price = NoneV THEN s
    ELSE LET pct == StopLossPctE5(s.consecutive_wins, s.current_portfolio_value)
             stop == TimesOneMinusE5(s.entry_price, pct)
         IN  [s EXCEPT
                !.stop_loss_price = stop,
                !.last_stop_loss =
                    IF Abs(stop - s.last_stop_loss) > DecScale \div 100
                    THEN stop ELSE s.last_stop_loss]

\* exit_position() without the in_position guard of lines 253-254.
ExitPositionNoGuard(s, r) ==
    IF r = RaiseV THEN s
    ELSE LET s1 == [s EXCEPT !.in_position = FALSE]
         IN  IF r = NoneV \/ s.entry_price = NoneV THEN s1
             ELSE LET pnl == ((r - s.entry_price) \div 1000) * BaseOrderAmountE3
                  IN  [s1 EXCEPT
                         !.total_realized_pnl = s.total_realized_pnl + pnl,
                         !.total_trades = s.total_trades + 1]

\* exit_position() with the pnl taken from exit to entry.
ExitPositionPnlReversed(s, r) ==
    IF ~s.in_position THEN s
    ELSE IF r = RaiseV THEN s
    ELSE LET s1 == [s EXCEPT !.in_position = FALSE]
         IN  IF r = NoneV \/ s.entry_price = NoneV THEN s1
             ELSE LET pnl == ((s.entry_price - r) \div 1000) * BaseOrderAmountE3
                  IN  [s1 EXCEPT
                         !.total_realized_pnl = s.total_realized_pnl + pnl,
                         !.total_trades = s.total_trades + 1]

\* exit_position(reason): r is the price read at line 256.
\*   r raised                        -> nothing assigned
\*   r is None or entry_price is None -> in_position cleared, then the pnl
\*                                       subtraction raises TypeError at line 260
ExitPosition(s, r) ==
    IF ~s.in_position THEN s
    ELSE IF r = RaiseV THEN s
    ELSE LET s1 == [s EXCEPT !.in_position = FALSE]
         IN  IF r = NoneV \/ s.entry_price = NoneV THEN s1
             ELSE LET pnl == ((r - s.entry_price) \div 1000) * BaseOrderAmountE3
                  IN  [s1 EXCEPT
                         !.total_realized_pnl = s.total_realized_pnl + pnl,
                         !.total_trades = s.total_trades + 1]

\* check_exit_conditions() with a strict stop-loss comparison.
ExitBranchStrictStop(s, r) ==
    IF ~s.in_position \/ r = RaiseV \/ r = NoneV THEN "none"
    ELSE IF r < s.stop_loss_price THEN "stop_loss"
    ELSE IF r >= s.profit_target_price THEN "profit_target"
    ELSE "none"

\* check_exit_conditions() with a strict profit-target comparison.
ExitBranchStrictTarget(s, r) ==
    IF ~s.in_position \/ r = RaiseV \/ r = NoneV THEN "none"
    ELSE IF r <= s.stop_loss_price THEN "stop_loss"
    ELSE IF r > s.profit_target_price THEN "profit_target"
    ELSE "none"

\* check_exit_conditions() with the profit target tested before the stop.
ExitBranchTargetFirst(s, r) ==
    IF ~s.in_position \/ r = RaiseV \/ r = NoneV THEN "none"
    ELSE IF r >= s.profit_target_price THEN "profit_target"
    ELSE IF r <= s.stop_loss_price THEN "stop_loss"
    ELSE "none"

\* Which branch check_exit_conditions() takes for the price r read at line 235.
\* Comparing None with a Decimal raises TypeError.
ExitBranch(s, r) ==
    IF ~s.in_position \/ r = RaiseV \/ r = NoneV THEN "none"
    ELSE IF r <= s.stop_loss_price THEN "stop_loss"
    ELSE IF r >= s.profit_target_price THEN "profit_target"
    ELSE "none"

\* check_exit_conditions() with a stop-loss branch that keeps the streak.
CheckExitConditionsKeepStreak(s, r, rx) ==
    LET branch == ExitBranch(s, r)
        s1 == ExitPosition(s, rx)
    IN  IF branch = "stop_loss"
        THEN [s1 EXCEPT !.losing_trades = s1.losing_trades + 1]
        ELSE IF branch = "profit_target"
        THEN [s1 EXCEPT !.consecutive_wins = s1.consecutive_wins + 1,
                        !.winning_trades = s1.winning_trades + 1]
        ELSE s

\* check_exit_conditions(): r is the price read at line 235, rx the price
\* exit_position() reads when a branch is taken.
CheckExitConditions(s, r, rx) ==
    LET branch == ExitBranch(s, r)
        s1 == ExitPosition(s, rx)
    IN  IF branch = "stop_loss"
        THEN [s1 EXCEPT !.consecutive_wins = 0,
                        !.losing_trades = s1.losing_trades + 1]
        ELSE IF branch = "profit_target"
        THEN [s1 EXCEPT !.consecutive_wins = s1.consecutive_wins + 1,
                        !.winning_trades = s1.winning_trades + 1]
        ELSE s

\* ------------------------------------------------------------------------
\* tick(timestamp)
\* ------------------------------------------------------------------------
\* The append skipped while fewer than Pd samples are held.
PushPriceSkipsWhileBuilding(h, r) ==
    LET h1 == Append(h, ToFloat(r))
    IN  IF Len(h1) < Pd THEN h
        ELSE IF Len(h1) > HistoryCap
        THEN SubSeq(h1, Len(h1) - HistoryCap + 1, Len(h1))
        ELSE h1

\* The append with the newest entries dropped on overflow.
PushPriceKeepOldest(h, r) ==
    LET h1 == Append(h, ToFloat(r))
    IN  IF Len(h1) > HistoryCap
        THEN SubSeq(h1, 1, HistoryCap)
        ELSE h1

\* self.price_history.append(float(current_price)), trimmed to the last
\* HistoryCap entries.
PushPrice(h, r) ==
    LET h1 == Append(h, ToFloat(r))
    IN  IF Len(h1) > HistoryCap
        THEN SubSeq(h1, Len(h1) - HistoryCap + 1, Len(h1))
        ELSE h1

\* The position logic with an entry evaluated again right after an exit.
DecideReenters(s, h, rd, fl) ==
    IF ~s.in_position
    THEN IF ShouldEnterLong(h, rd[1], fl)
         THEN [s |-> EnterLong(s, rd[2]), outcome |-> "enter_long",
               reads |-> <<rd[1], rd[2]>>]
         ELSE [s |-> s, outcome |-> "no_signal", reads |-> <<rd[1]>>]
    ELSE LET s1 == AdjustStopLoss(s, rd[1])
             branch == ExitBranch(s1, rd[2])
             s2 == CheckExitConditions(s1, rd[2], rd[3])
         IN  IF branch = "none"
             THEN [s |-> s1, outcome |-> "hold", reads |-> <<rd[1], rd[2]>>]
             ELSE [s |-> IF ~s2.in_position /\ ShouldEnterLong(h, rd[3], fl)
                         THEN EnterLong(s2, rd[3]) ELSE s2,
                   outcome |-> branch, reads |-> <<rd[1], rd[2], rd[3]>>]

\* The part of tick() after the price was appended (lines 107-117), for a
\* history h of at least Pd samples.  rd[1], rd[2], rd[3] are the results of
\* the get_mid_price() calls the methods make, in call order; fl gives the
\* outcomes of the float comparisons that rounding decides.
\* Gives the new strategy record, the branch taken and the reads made.
Decide(s, h, rd, fl) ==
    IF ~s.in_position
    THEN IF ShouldEnterLong(h, rd[1], fl)
         THEN [s |-> EnterLong(s, rd[2]), outcome |-> "enter_long",
               reads |-> <<rd[1], rd[2]>>]
         ELSE [s |-> s, outcome |-> "no_signal", reads |-> <<rd[1]>>]
    ELSE LET s1 == AdjustStopLoss(s, rd[1])
             branch == ExitBranch(s1, rd[2])
         IN  IF branch = "none"
             THEN [s |-> s1, outcome |-> "hold", reads |-> <<rd[1], rd[2]>>]
             ELSE [s |-> CheckExitConditions(s1, rd[2], rd[3]),
                   outcome |-> branch, reads |-> <<rd[1], rd[2], rd[3]>>]

\* The price-read exception leaving tick() instead of being caught.
PriceErrorEscapes(res) ==
    [res EXCEPT !.outcome = "price_error", !.escaped = TRUE]

\* except Exception as price_error (lines 119-120): the exception raised by
\* the price read is logged and tick() returns normally.
PriceErrorHandler(res) == [res EXCEPT !.outcome = "price_error"]

\* tick() with a throttle that lets a tick exactly 1.0 s later through.
TickResultThrottleBelowOne(ts, ready, r0, rd, fl) ==
    LET same == [s |-> Self, h |-> price_history, lts |-> last_timestamp,
                 rdy |-> ready_to_trade, lpl |-> last_price_log,
                 outcome |-> "throttled", reads |-> <<>>, escaped |-> FALSE]
    IN  IF ts - last_timestamp < 1 THEN same
        ELSE IF ~ready_to_trade /\ ~ready
        THEN [same EXCEPT !.lts = ts, !.outcome = "not_ready"]
        ELSE LET started == [same EXCEPT !.lts = ts, !.rdy = TRUE,
                                         !.reads = <<r0>>]
             IN  IF r0 = RaiseV
                 THEN PriceErrorHandler(started)
                 ELSE IF r0 = NoneV \/ r0 = 0
                 THEN [started EXCEPT !.outcome = "no_price"]
                 ELSE LET h1 == PushPrice(price_history, r0)
                          pushed == [started EXCEPT
                                        !.h = h1,
                                        !.lpl = IF ts - last_price_log >= 30
                                                THEN ts ELSE last_price_log]
                      IN  IF Len(h1) >= Pd
                          THEN LET d == Decide(Self, h1, rd, fl)
                               IN  [pushed EXCEPT !.s = d.s,
                                                  !.outcome = d.outcome,
                                                  !.reads = <<r0>> \o d.reads]
                          ELSE [pushed EXCEPT !.outcome = "building"]

\* One call tick(ts) with the market reporting `ready`, the first price read
\* giving r0 and the later reads giving rd.  The result holds the new value
\* of every field, the outcome, the prices read, and whether an exception
\* left tick() (escaped).  A raised first read is caught by the inner handler
\* (line 119); should_enter_long, enter_long, adjust_stop_loss,
\* check_exit_conditions and exit_position catch inside themselves.
TickResult(ts, ready, r0, rd, fl) ==
    LET same == [s |-> Self, h |-> price_history, lts |-> last_timestamp,
                 rdy |-> ready_to_trade, lpl |-> last_price_log,
                 outcome |-> "throttled", reads |-> <<>>, escaped |-> FALSE]
    IN  IF ts - last_timestamp <= 1 THEN same
        ELSE IF ~ready_to_trade /\ ~ready
        THEN [same EXCEPT !.lts = ts, !.outcome = "not_ready"]
        ELSE LET started == [same EXCEPT !.lts = ts, !.rdy = TRUE,
                                         !.reads = <<r0>>]
             IN  IF r0 = RaiseV
                 THEN PriceErrorHandler(started)
                 ELSE IF r0 = NoneV \/ r0 = 0
                 THEN [started EXCEPT !.outcome = "no_price"]
                 ELSE LET h1 == PushPrice(price_history, r0)
                          pushed == [started EXCEPT
                                        !.h = h1,
                                        !.lpl = IF ts - last_price_log >= 30
                                                THEN ts ELSE last_price_log]
                      IN  IF Len(h1) >= Pd
                          THEN LET d == Decide(Self, h1, rd, fl)
                               IN  [pushed EXCEPT !.s = d.s,
                                                  !.outcome = d.outcome,
                                                  !.reads = <<r0>> \o d.reads]
                          ELSE [pushed EXCEPT !.outcome = "building"]

\* All fields take the values of a strategy record.
SetSelf(s) ==
    /\ in_position' = s.in_position
    /\ entry_price' = s.entry_price
    /\ profit_target_price' = s.profit_target_price
    /\ stop_loss_price' = s.stop_loss_price
    /\ last_stop_loss' = s.last_stop_loss
    /\ consecutive_wins' = s.consecutive_wins
    /\ current_portfolio_value' = s.current_portfolio_value
    /\ total_realized_pnl' = s.total_realized_pnl
    /\ total_trades' = s.total_trades
    /\ winning_trades' = s.winning_trades
    /\ losing_trades' = s.losing_trades

\* One of the reads raised.
HasRaise(reads) == \E i \in 1..Len(reads) : reads[i] = RaiseV

ApplyTick(ts, res) ==
    /\ SetSelf(res.s)
    /\ price_history' = res.h
    /\ last_timestamp' = res.lts
    /\ ready_to_trade' = res.rdy
    /\ last_price_log' = res.lpl
    /\ last_call' = [op |-> "tick", ts |-> ts, outcome |-> res.outcome,
                     reads |-> res.reads, escaped |-> res.escaped,
                     after_raise |-> HasRaise(last_call.reads)]
    /\ UNCHANGED <<maker_vars, controller_vars>>

\* The market moves only on the sample grid (see the bounds).
MoveAllowed(n) ==
    n >= WarmUp /\ n <= MoveUntil /\ (n - WarmUp) % Stride = 0

\* The price the environment may deliver as the next accepted sample.
NextSampleOk(r0) ==
    /\ r0 \in Prices
    /\ accepted < MaxSamples
    /\ IF accepted = 0 THEN r0 = StartPrice
       ELSE IF MoveAllowed(accepted) THEN TRUE
       ELSE ToFloat(r0) = price_history[Len(price_history)]

Steady(r0) == [k \in 1..3 |-> r0]

\* The outcomes that rounding can decide in a tick that accepts the sample
\* r0 and reads rd afterwards (should_enter_long runs only while FLAT).
TickRoundings(r0, rd) ==
    IF in_position THEN {NoRounding}
    ELSE RoundingsOf(PushPrice(price_history, r0), rd[1])

Tick ==
    \/ \* throttled: not more than 1.0 s after the last processed tick
       /\ ApplyTick(last_timestamp + 1,
                    TickResult(last_timestamp + 1, TRUE, NoneV, Steady(NoneV),
                               NoRounding))
       /\ UNCHANGED <<accepted, faults>>
    \/ \* the market is not ready yet
       /\ ~ready_to_trade
       /\ faults < MaxFaults
       /\ ApplyTick(last_timestamp + 2,
                    TickResult(last_timestamp + 2, FALSE, NoneV, Steady(NoneV),
                               NoRounding))
       /\ faults' = faults + 1
       /\ UNCHANGED accepted
    \/ \* the first price read fails or gives no usable price
       /\ faults < MaxFaults
       /\ \E r0 \in {RaiseV, NoneV, 0} :
             ApplyTick(last_timestamp + 2,
                       TickResult(last_timestamp + 2, TRUE, r0, Steady(r0),
                                  NoRounding))
       /\ faults' = faults + 1
       /\ UNCHANGED accepted
    \/ \* a sample is accepted and every later read of the tick agrees with it
       \E r0 \in Prices :
          /\ NextSampleOk(r0)
          /\ \E fl \in TickRoundings(r0, Steady(r0)) :
                ApplyTick(last_timestamp + 2,
                          TickResult(last_timestamp + 2, TRUE, r0,
                                     Steady(r0), fl))
          /\ accepted' = accepted + 1
          /\ UNCHANGED faults
    \/ \* a sample is accepted and one later read of the tick differs from it
       /\ faults < MaxFaults
       /\ \E r0 \in Prices, g \in 1..3, v \in Reads :
             LET rd == [Steady(r0) EXCEPT ![g] = v]
             IN  /\ NextSampleOk(r0)
                 /\ v # r0
                 /\ \E fl \in TickRoundings(r0, rd) :
                       LET res == TickResult(last_timestamp + 2, TRUE, r0,
                                             rd, fl)
                       IN  /\ g < Len(res.reads)
                           /\ ApplyTick(last_timestamp + 2, res)
       /\ accepted' = accepted + 1
       /\ faults' = faults + 1

ScalperInit ==
    /\ price_history = <<>>
    /\ in_position = FALSE
    /\ entry_price = 0
    /\ profit_target_price = 0
    /\ stop_loss_price = 0
    /\ last_stop_loss = 0
    /\ consecutive_wins = 0
    /\ current_portfolio_value = InitialPortfolioValue
    /\ total_realized_pnl = 0
    /\ total_trades = 0
    /\ winning_trades = 0
    /\ losing_trades = 0
    /\ last_timestamp = 0
    /\ ready_to_trade = FALSE
    /\ last_price_log = 0
    /\ accepted = 0
    /\ faults = 0
    /\ last_call = [op |-> "init", ts |-> 0, outcome |-> "init",
                    reads |-> <<>>, escaped |-> FALSE, after_raise |-> FALSE]

\* Both strategy objects as constructed, in a build whose OrderType has a
\* STOP member.
Init ==
    /\ ScalperInit
    /\ MakerInit
    /\ MakerConfigInit
    /\ ControllerInit
    /\ order_type_has_stop = TRUE

Next == Tick

\* The strategy driven by the clock alone.
Spec == Init /\ [][Next]_vars

\* ------------------------------------------------------------------------
\* The public methods invoked from outside tick().  A direct call is the
\* only disturbance of its run: it uses up the whole disturbance budget.
\* ------------------------------------------------------------------------
Called(op, s, reads) ==
    /\ faults = 0
    /\ SetSelf(s)
    /\ last_call' = [op |-> op, ts |-> last_timestamp, outcome |-> "called",
                     reads |-> reads, escaped |-> FALSE,
                     after_raise |-> HasRaise(last_call.reads)]
    /\ faults' = MaxFaults
    /\ UNCHANGED <<price_history, last_timestamp, ready_to_trade,
                   last_price_log, accepted>>
    /\ UNCHANGED <<maker_vars, controller_vars>>

CallEnterLong ==
    \E r \in Reads : Called("enter_long", EnterLong(Self, r), <<r>>)

\* The three guarded methods return before reading a price when FLAT.
CallAdjustStopLoss ==
    \E r \in Reads :
        Called("adjust_stop_loss", AdjustStopLoss(Self, r),
               IF in_position THEN <<r>> ELSE <<>>)

CallExitPosition ==
    \E r \in Reads :
        Called("exit_position", ExitPosition(Self, r),
               IF in_position THEN <<r>> ELSE <<>>)

CallCheckExitConditions ==
    \E r \in Reads, rx \in Reads :
        Called("check_exit_conditions", CheckExitConditions(Self, r, rx),
               IF ~in_position THEN <<>>
               ELSE IF ExitBranch(Self, r) = "none" THEN <<r>>
               ELSE <<r, rx>>)

NextCalls ==
    \/ Tick
    \/ CallEnterLong
    \/ CallAdjustStopLoss
    \/ CallExitPosition
    \/ CallCheckExitConditions

\* The strategy driven by the clock and by direct method calls.
SpecCalls == Init /\ [][NextCalls]_vars

\* ------------------------------------------------------------------------
\* The long run: the strategy driven by the clock for more samples than the
\* price history holds, over a feed that can also deliver a negative price.
\* ------------------------------------------------------------------------
\* The last positive entry of a history whose first entry is positive.
LastValid(h) ==
    h[CHOOSE i \in 1..Len(h) :
         h[i] > 0 /\ \A j \in (i + 1)..Len(h) : h[j] <= 0]

LongRunMoveAllowed(n) == n = 1 \/ n % LongStride = 0

LongRunSampleOk(r0) ==
    /\ r0 \in Prices
    /\ accepted < MaxLongSamples
    /\ IF accepted = 0 THEN r0 = StartPrice
       ELSE IF LongRunMoveAllowed(accepted) THEN TRUE
       ELSE ToFloat(r0) = LastValid(price_history)

TickLongRun ==
    \/ \* throttled
       /\ ApplyTick(last_timestamp + 1,
                    TickResult(last_timestamp + 1, TRUE, NoneV, Steady(NoneV),
                               NoRounding))
       /\ UNCHANGED <<accepted, faults>>
    \/ \* the first price read fails or gives no usable price
       /\ faults < MaxFaults
       /\ \E r0 \in {RaiseV, NoneV, 0} :
             ApplyTick(last_timestamp + 2,
                       TickResult(last_timestamp + 2, TRUE, r0, Steady(r0),
                                  NoRounding))
       /\ faults' = faults + 1
       /\ UNCHANGED accepted
    \/ \* the market reports a negative mid price while the history is still
       \* being built (fewer than Pd samples: no indicator is computed yet)
       /\ faults < MaxFaults
       /\ accepted > 0
       /\ accepted + 1 < Pd
       /\ ApplyTick(last_timestamp + 2,
                    TickResult(last_timestamp + 2, TRUE, NegPrice,
                               Steady(NegPrice), NoRounding))
       /\ accepted' = accepted + 1
       /\ faults' = faults + 1
    \/ \* a sample is accepted and every later read of the tick agrees with it
       \E r0 \in Prices :
          /\ LongRunSampleOk(r0)
          /\ \E fl \in TickRoundings(r0, Steady(r0)) :
                ApplyTick(last_timestamp + 2,
                          TickResult(last_timestamp + 2, TRUE, r0,
                                     Steady(r0), fl))
          /\ accepted' = accepted + 1
          /\ UNCHANGED faults

NextLongRun == TickLongRun

SpecLongRun == Init /\ [][NextLongRun]_vars

\* ------------------------------------------------------------------------
\* The stop sizing as a function of the winning streak.  consecutive_wins is
\* drawn from a bounded set, current_portfolio_value is the value the
\* constructor assigns (no method assigns it again), every other field is as
\* constructed, and the two methods that size a stop are applied.
\* ------------------------------------------------------------------------
InitSizing ==
    /\ price_history = <<>>
    /\ in_position = FALSE
    /\ entry_price = 0
    /\ profit_target_price = 0
    /\ stop_loss_price = 0
    /\ last_stop_loss = 0
    /\ consecutive_wins \in 0..MaxWins
    /\ current_portfolio_value = InitialPortfolioValue
    /\ total_realized_pnl = 0
    /\ total_trades = 0
    /\ winning_trades = 0
    /\ losing_trades = 0
    /\ last_timestamp = 0
    /\ ready_to_trade = FALSE
    /\ last_price_log = 0
    /\ accepted = 0
    /\ faults = 0
    /\ last_call = [op |-> "init", ts |-> 0, outcome |-> "init",
                    reads |-> <<>>, escaped |-> FALSE, after_raise |-> FALSE]
    /\ MakerInit
    /\ MakerConfigInit
    /\ ControllerInit
    /\ order_type_has_stop = TRUE

Invoke(op, s, reads) ==
    /\ SetSelf(s)
    /\ last_call' = [op |-> op, ts |-> last_timestamp, outcome |-> "called",
                     reads |-> reads, escaped |-> FALSE,
                     after_raise |-> HasRaise(last_call.reads)]
    /\ UNCHANGED <<price_history, last_timestamp, ready_to_trade,
                   last_price_log, accepted, faults>>
    /\ UNCHANGED <<maker_vars, controller_vars>>

SizingEnterLong ==
    \E r \in Reads : Invoke("enter_long", EnterLong(Self, r), <<r>>)

SizingAdjustStopLoss ==
    \E r \in Reads :
        Invoke("adjust_stop_loss", AdjustStopLoss(Self, r),
               IF in_position THEN <<r>> ELSE <<>>)

NextSizing == SizingEnterLong \/ SizingAdjustStopLoss

SpecSizing == InitSizing /\ [][NextSizing]_vars

\* The same starting states with the exit check among the calls: a failed
\* exit changes the streak of an open position.
SizingCheckExitConditions ==
    /\ winning_trades + losing_trades < MaxExits
    /\ \E r \in Reads, rx \in Reads :
          Invoke("check_exit_conditions", CheckExitConditions(Self, r, rx),
                 IF ~in_position THEN <<>>
                 ELSE IF ExitBranch(Self, r) = "none" THEN <<r>>
                 ELSE <<r, rx>>)

NextExits ==
    SizingEnterLong \/ SizingAdjustStopLoss \/ SizingCheckExitConditions

SpecExits == InitSizing /\ [][NextExits]_vars

\* ------------------------------------------------------------------------
\* The exits of the clock-driven strategy over a market that loses its price
\* between the reads of one tick: the market is ready from the first tick,
\* every tick's first read is a usable price, and in up to MaxLateReads
\* ticks the read made by enter_long(), check_exit_conditions() or
\* exit_position() gives 0 or None.  Only the first read of a tick is
\* tested for None and 0 (line 94), so a later read of 0 is used as a
\* price: an entry at 0 puts entry, target and stop at 0.
\* ------------------------------------------------------------------------
TickExits ==
    \/ \* throttled: not more than 1.0 s after the last processed tick
       /\ ApplyTick(last_timestamp + 1,
                    TickResult(last_timestamp + 1, TRUE, NoneV, Steady(NoneV),
                               NoRounding))
       /\ UNCHANGED <<accepted, faults>>
    \/ \* a sample is accepted and every later read of the tick agrees with it
       \E r0 \in Prices :
          /\ NextSampleOk(r0)
          /\ \E fl \in TickRoundings(r0, Steady(r0)) :
                ApplyTick(last_timestamp + 2,
                          TickResult(last_timestamp + 2, TRUE, r0,
                                     Steady(r0), fl))
          /\ accepted' = accepted + 1
          /\ UNCHANGED faults
    \/ \* a sample is accepted and one later read of the tick gives no price
       /\ faults < MaxLateReads
       /\ \E r0 \in Prices, g \in 2..3, v \in {0, NoneV} :
             LET rd == [Steady(r0) EXCEPT ![g] = v]
             IN  /\ NextSampleOk(r0)
                 /\ v # r0
                 /\ \E fl \in TickRoundings(r0, rd) :
                       LET res == TickResult(last_timestamp + 2, TRUE, r0,
                                             rd, fl)
                       IN  /\ g < Len(res.reads)
                           /\ ApplyTick(last_timestamp + 2, res)
       /\ accepted' = accepted + 1
       /\ faults' = faults + 1

NextExitTicks == TickExits

SpecExitTicks == Init /\ [][NextExitTicks]_vars

\* ------------------------------------------------------------------------
\* CMWilliamsVixMaker: the market maker that widens its spread on the same
\* indicator.  Its object is the record MakerSelf; value, signal and calcs
\* carry what the calculate_cm_williams_vix() calls of one operation
\* returned and how many there were.
\* ------------------------------------------------------------------------
MakerSelf ==
    [price_history |-> _price_history,
     vix_history |-> _vix_history,
     last_timestamp |-> _last_timestamp,
     current_timestamp |-> _current_timestamp,
     value |-> 0, signal |-> FALSE, calcs |-> 0]

\* max(self._lookback_period * 2, self._bb_length * 2), the length above
\* which the price history is cut back.
MakerHistoryCap == MaxOf({lookback_period * 2, bb_length * 2})

\* wvf > upper_band, with upper_band = np.mean + bb_std * np.std over the
\* last bb_length stored values (population std, ddof = 0).  With N =
\* bb_length, S the sum and Q the sum of squares of these values:
\*   wvf > S/N + bb_std * sqrt(Q/N - (S/N)^2)
\*   <=> N*wvf - S > 0 /\ (N*wvf - S)^2 > bb_std^2 * (N*Q - S^2)
AboveVixUpperBand(vh, wvf) ==
    LET n == Len(vh)
        sq == [i \in 1..n |-> vh[i] * vh[i]]
        S == SumOver(vh, n - bb_length + 1, n)
        Q == SumOver(sq, n - bb_length + 1, n)
        d == bb_length * wvf - S
    IN  /\ d > 0
        /\ d * d > bb_std * bb_std * (bb_length * Q - S * S)

\* The indicator with the highest close taken over the whole stored history.
CalculateCmWilliamsVixNoWindow(m) ==
    LET ph == m.price_history
        n == Len(ph)
        none == [m EXCEPT !.value = 0, !.signal = FALSE,
                          !.calcs = m.calcs + 1]
    IN  IF n < lookback_period THEN none
        ELSE LET highest_close == MaxOf({ph[j] : j \in 1..n})
                 current_low == ph[n]
                 wvf == ((highest_close - current_low) * 100 * WvfScale)
                            \div highest_close
             IN  IF highest_close = 0 THEN none
                 ELSE [m EXCEPT
                         !.value = wvf,
                         !.signal = IF Len(m.vix_history) >= bb_length
                                    THEN AboveVixUpperBand(m.vix_history, wvf)
                                    ELSE FALSE,
                         !.vix_history = Append(m.vix_history, wvf),
                         !.calcs = m.calcs + 1]

\* calculate_cm_williams_vix(): returns (0.0, False) below lookback_period
\* prices; otherwise computes wvf over the last lookback_period prices,
\* compares it with the band of the stored values when bb_length of them
\* exist, and appends it to self._vix_history on every call.
CalculateCmWilliamsVix(m) ==
    LET ph == m.price_history
        n == Len(ph)
        none == [m EXCEPT !.value = 0, !.signal = FALSE,
                          !.calcs = m.calcs + 1]
    IN  IF n < lookback_period THEN none
        ELSE LET highest_close ==
                     MaxOf({ph[j] : j \in (n - lookback_period + 1)..n})
                 current_low == ph[n]
                 wvf == ((highest_close - current_low) * 100 * WvfScale)
                            \div highest_close
             IN  IF highest_close = 0 THEN none
                 ELSE [m EXCEPT
                         !.value = wvf,
                         !.signal = IF Len(m.vix_history) >= bb_length
                                    THEN AboveVixUpperBand(m.vix_history, wvf)
                                    ELSE FALSE,
                         !.vix_history = Append(m.vix_history, wvf),
                         !.calcs = m.calcs + 1]

\* get_price(): the mid price if it is truthy and positive, else None; an
\* exception of the market gives None.
GetPrice(r) == IF r = RaiseV \/ r = NoneV \/ r <= 0 THEN NoneV ELSE r

\* create_order_proposals() cutting the history back to one price less.
CreateOrderProposalsTrimsShort(m, ready, r) ==
    IF ~ready \/ GetPrice(r) = NoneV THEN m
    ELSE LET h1 == Append(m.price_history, ToFloat(GetPrice(r)))
             h2 == IF Len(h1) > MakerHistoryCap
                   THEN SubSeq(h1, Len(h1) - lookback_period + 2, Len(h1))
                   ELSE h1
         IN  CalculateCmWilliamsVix([m EXCEPT !.price_history = h2])

\* create_order_proposals(): nothing when the market is not ready or there
\* is no price; otherwise the price is appended, the history is cut back to
\* lookback_period entries once it exceeds MakerHistoryCap, and the
\* indicator is computed.  The proposals are returned, not stored.
CreateOrderProposals(m, ready, r) ==
    IF ~ready \/ GetPrice(r) = NoneV THEN m
    ELSE LET h1 == Append(m.price_history, ToFloat(GetPrice(r)))
             h2 == IF Len(h1) > MakerHistoryCap
                   THEN SubSeq(h1, Len(h1) - lookback_period + 1, Len(h1))
                   ELSE h1
         IN  CalculateCmWilliamsVix([m EXCEPT !.price_history = h2])

\* check_and_cancel_active_orders(): returns at once without active orders,
\* else computes the indicator before looking at the orders.
CheckAndCancelActiveOrders(m, active) ==
    IF ~active THEN m ELSE CalculateCmWilliamsVix(m)

\* report_status(): nothing when the market is not ready; otherwise the
\* indicator is computed for the log record and the report time is stored.
ReportStatus(m, ready) ==
    IF ~ready THEN m
    ELSE [CalculateCmWilliamsVix(m) EXCEPT
            !.last_timestamp = m.current_timestamp]

\* self.process_tick(), inherited: the step that creates the new order
\* proposals of the tick.
ProcessTick(m, ready, r) == CreateOrderProposals(m, ready, r)

\* tick(timestamp)
MakerTickResult(ts, active, ready, r) ==
    LET m0 == [MakerSelf EXCEPT !.current_timestamp = ts]
        m1 == CheckAndCancelActiveOrders(m0, active)
        m2 == ProcessTick(m1, ready, r)
    IN  IF ts - m2.last_timestamp > status_report_interval
        THEN ReportStatus(m2, ready)
        ELSE m2

SetMakerSelf(op, m) ==
    /\ _price_history' = m.price_history
    /\ _vix_history' = m.vix_history
    /\ _last_timestamp' = m.last_timestamp
    /\ _current_timestamp' = m.current_timestamp
    /\ maker_call' = [op |-> op, value |-> m.value, signal |-> m.signal,
                      calcs |-> m.calcs]
    /\ UNCHANGED <<_last_trade_price, placed_orders, order_type_has_stop,
                   delivered>>
    /\ UNCHANGED <<proposal_vars, scalper_vars, controller_vars>>

\* The market moves, and a tick is disturbed, only on the sample grid.
MakerOnGrid(n) ==
    n >= lookback_period /\ (n - lookback_period) % MakerStride = 0

\* The reference price the market may show for the next sample.
MakerSampleOk(r) ==
    /\ r \in MakerPrices
    /\ maker_samples = 0 => r = MakerStartPrice
    /\ (maker_samples > 0 /\ ~MakerOnGrid(maker_samples + 1))
          => ToFloat(r) = _price_history[Len(_price_history)]

\* The timestamp of the next tick, one second after the last.
NextTime ==
    IF _current_timestamp = 0 THEN MakerStartTime ELSE _current_timestamp + 1

MakerTick ==
    /\ maker_samples < MaxMakerSamples
    /\ \E r \in MakerReads, active \in BOOLEAN, ready \in BOOLEAN,
          late \in BOOLEAN :
          LET ts == IF late THEN NextTime + status_report_interval
                    ELSE NextTime
              plain == MakerSampleOk(r) /\ ~active /\ ready /\ ~late
              sampled == ready /\ GetPrice(r) # NoneV
          IN  /\ \/ plain /\ UNCHANGED maker_extras
                 \/ /\ ~plain
                    /\ maker_samples > 0
                    /\ MakerOnGrid(maker_samples + 1)
                    /\ maker_extras < MaxMakerExtras
                    /\ sampled => MakerSampleOk(r)
                    /\ ~sampled => r \in {NoneV, 0} /\ ~active /\ ~late
                    /\ maker_extras' = maker_extras + 1
              /\ maker_samples' = IF sampled THEN maker_samples + 1
                                  ELSE maker_samples
              /\ SetMakerSelf("tick", MakerTickResult(ts, active, ready, r))

\* calculate_cm_williams_vix() called once more on the history as it stands.
CallCalculateCmWilliamsVix ==
    /\ MakerOnGrid(maker_samples)
    /\ maker_extras < MaxMakerExtras
    /\ maker_extras' = maker_extras + 1
    /\ UNCHANGED maker_samples
    /\ SetMakerSelf("calculate_cm_williams_vix",
                    CalculateCmWilliamsVix(MakerSelf))

NextMaker == MakerTick \/ CallCalculateCmWilliamsVix

SpecMaker == Init /\ [][NextMaker]_vars

\* ------------------------------------------------------------------------
\* The maker's order proposals.  Spreads are in basis points, multipliers
\* in tenths, the adjusted spread in 1e-5.
\* ------------------------------------------------------------------------
\* get_spread_multiplier(is_high_volatility)
GetSpreadMultiplier(is_high_volatility) ==
    IF is_high_volatility THEN _high_volatility_multiplier
    ELSE _low_volatility_multiplier

\* The adjusted spread without the upper clamp.
AdjustedSpreadUnclamped(is_high_volatility) ==
    MaxOf({_min_spread * GetSpreadMultiplier(is_high_volatility),
           _min_spread * 10})

\* min(max(min_spread * spread_multiplier, min_spread), max_spread)
AdjustedSpread(is_high_volatility) ==
    Min(MaxOf({_min_spread * GetSpreadMultiplier(is_high_volatility),
               _min_spread * 10}),
        _max_spread * 10)

\* What create_order_proposals() returns: nothing when the market is not
\* ready, there is no price, or the held position (None counts as 0) has
\* reached the limit; otherwise one buy at ref_price * (1 - spread) and one
\* sell at ref_price * (1 + spread), both for the order amount.
OrderProposals(ready, r, is_high_volatility, position) ==
    LET none == [buy |-> <<>>, sell |-> <<>>]
        ref_price == GetPrice(r)
        adjusted_spread == AdjustedSpread(is_high_volatility)
        position_size == IF position = NoneV THEN 0 ELSE Abs(position)
    IN  IF ~ready \/ ref_price = NoneV THEN none
        ELSE IF position_size < _max_position_size
        THEN [buy |-> <<[side |-> "BUY", amount |-> _order_amount,
                         price |-> (ref_price \div 100000)
                                      * (100000 - adjusted_spread)]>>,
              sell |-> <<[side |-> "SELL", amount |-> _order_amount,
                          price |-> (ref_price \div 100000)
                                       * (100000 + adjusted_spread)]>>]
        ELSE none

\* create_order_proposals() called on its own: the price is appended and
\* the indicator computed as in a tick, and the proposals are returned.
CallCreateOrderProposals ==
    /\ maker_samples < MaxProposalSamples
    /\ \E r \in MakerReads, ready \in BOOLEAN, position \in PositionReads :
          LET sampled == ready /\ GetPrice(r) # NoneV
              m == CreateOrderProposals(MakerSelf, ready, r)
              p == OrderProposals(ready, r, m.signal, position)
          IN  /\ sampled => MakerSampleOk(r)
              /\ ~sampled => r \in {NoneV, 0}
              /\ _price_history' = m.price_history
              /\ _vix_history' = m.vix_history
              /\ maker_samples' = IF sampled THEN maker_samples + 1
                                  ELSE maker_samples
              /\ maker_call' = [op |-> "create_order_proposals",
                                value |-> m.value, signal |-> m.signal,
                                calcs |-> m.calcs]
              /\ proposal_call' =
                    [op |-> "create_order_proposals", ready |-> ready,
                     price |-> r, position |-> position, high |-> m.signal,
                     buy |-> p.buy, sell |-> p.sell]
    /\ UNCHANGED <<_last_trade_price, _last_timestamp, _current_timestamp,
                   placed_orders, order_type_has_stop, delivered,
                   maker_extras, _min_spread, _max_spread,
                   _high_volatility_multiplier, _low_volatility_multiplier,
                   _max_position_size, _order_amount>>
    /\ UNCHANGED <<scalper_vars, controller_vars>>

\* The maker constructed with any of a few spread settings.
InitProposals ==
    /\ ScalperInit
    /\ MakerInit
    /\ ControllerInit
    /\ order_type_has_stop = TRUE
    /\ _min_spread \in {0 - 100, 0, 100}
    /\ _max_spread \in {50, 500}
    /\ _high_volatility_multiplier \in {15, 60}
    /\ _low_volatility_multiplier \in {0 - 10, 5}
    /\ _order_amount \in {1, 2}
    /\ _max_position_size = 10 * _order_amount
    /\ proposal_call = NoProposalCall

NextProposals == CallCreateOrderProposals

SpecProposals == InitProposals /\ [][NextProposals]_vars

\* ------------------------------------------------------------------------
\* The maker's fill handling.  The order-filled event is delivered by the
\* exchange connector; nothing in the class remembers which order
\* identifiers were already handled.
\* ------------------------------------------------------------------------
\* price * (Decimal("1") + pct / 100), pct negative for a discount.
TimesOnePlusPct(price, pct) == (price \div 100) * (100 + pct)

\* place_order(): hands the order to buy/sell_with_specific_market when
\* amount > 0 and price > 0.
PlaceOrder(orders, side, amount, order_type, price) ==
    IF amount > 0 /\ price > 0
    THEN Append(orders, [side |-> side, amount |-> amount,
                         order_type |-> order_type, price |-> price])
    ELSE orders

\* did_fill_order(event): the orders placed.  The stop order is built with
\* OrderType.STOP; where the enum has no such member the attribute lookup
\* raises inside the try block before any order is placed.
DidFillOrder(orders, event, has_stop) ==
    IF ~has_stop THEN orders
    ELSE IF event.trade_type = "BUY"
    THEN PlaceOrder(
             PlaceOrder(orders, "SELL", event.amount, "STOP",
                        TimesOnePlusPct(event.price, 0 - stop_loss_spread)),
             "SELL", event.amount, "LIMIT",
             TimesOnePlusPct(event.price, take_profit_spread))
    ELSE PlaceOrder(
             PlaceOrder(orders, "BUY", event.amount, "STOP",
                        TimesOnePlusPct(event.price, stop_loss_spread)),
             "BUY", event.amount, "LIMIT",
             TimesOnePlusPct(event.price, 0 - take_profit_spread))

\* One delivery of an order-filled event, a new one or a repeated one.
DeliverFill ==
    /\ Len(delivered) < MaxDeliveries
    /\ \E event \in FillEvents :
          /\ _last_trade_price' = event.price
          /\ placed_orders' =
                 DidFillOrder(placed_orders, event, order_type_has_stop)
          /\ delivered' = Append(delivered, event)
          /\ maker_call' = [op |-> "did_fill_order", value |-> 0,
                            signal |-> FALSE, calcs |-> 0]
    /\ UNCHANGED <<_price_history, _vix_history, _last_timestamp,
                   _current_timestamp, order_type_has_stop, maker_samples,
                   maker_extras>>
    /\ UNCHANGED <<proposal_vars, scalper_vars, controller_vars>>

\* Both builds: with and without a STOP member in OrderType.
InitFills ==
    /\ ScalperInit
    /\ MakerInit
    /\ MakerConfigInit
    /\ ControllerInit
    /\ order_type_has_stop \in BOOLEAN

NextFills == DeliverFill

SpecFills == InitFills /\ [][NextFills]_vars

\* ------------------------------------------------------------------------
\* BasicOrderOpenClose: the controller that opens one position and closes
\* it after close_order_delay.  Each call sees whether an executor is
\* active, whether a position for the configured connector and pair is
\* held, the mid price and the time.
\* ------------------------------------------------------------------------
ControllerSelf ==
    [open_order_placed |-> open_order_placed,
     closed_order_placed |-> closed_order_placed,
     last_timestamp |-> controller_last_timestamp,
     actions |-> <<>>, raised |-> FALSE, missed |-> FALSE]

\* Mid prices of the controller's market; amount_quote / 0 raises.
ControllerPrices == {0, 100 * DecScale}

\* determine_executor_actions() without the open_order_placed assignment.
DetermineExecutorActionsReopens(c, active, held, mid_price, time) ==
    IF active THEN c
    ELSE IF ~c.open_order_placed
    THEN IF mid_price = 0 THEN [c EXCEPT !.raised = TRUE]
         ELSE [c EXCEPT !.last_timestamp = time,
                        !.actions = <<"open">>]
    ELSE IF time - c.last_timestamp > close_order_delay
            /\ ~c.closed_order_placed
    THEN IF ~held THEN [c EXCEPT !.missed = TRUE]
         ELSE [c EXCEPT !.closed_order_placed = TRUE,
                        !.actions = <<"close">>]
    ELSE c

\* determine_executor_actions() closing as soon as the delay has elapsed.
DetermineExecutorActionsClosesAtDelay(c, active, held, mid_price, time) ==
    IF active THEN c
    ELSE IF ~c.open_order_placed
    THEN IF mid_price = 0 THEN [c EXCEPT !.raised = TRUE]
         ELSE [c EXCEPT !.open_order_placed = TRUE,
                        !.last_timestamp = time,
                        !.actions = <<"open">>]
    ELSE IF time - c.last_timestamp >= close_order_delay
            /\ ~c.closed_order_placed
    THEN IF ~held THEN [c EXCEPT !.missed = TRUE]
         ELSE [c EXCEPT !.closed_order_placed = TRUE,
                        !.actions = <<"close">>]
    ELSE c

\* determine_executor_actions(): with no active executor, the open action
\* is created once (amount_quote / mid_price raises for a zero price, before
\* anything is assigned); afterwards, once more than close_order_delay has
\* passed and nothing was closed yet, the close action is created if
\* get_position() finds the position, else only a line is logged.
DetermineExecutorActions(c, active, held, mid_price, time) ==
    IF active THEN c
    ELSE IF ~c.open_order_placed
    THEN IF mid_price = 0 THEN [c EXCEPT !.raised = TRUE]
         ELSE [c EXCEPT !.open_order_placed = TRUE,
                        !.last_timestamp = time,
                        !.actions = <<"open">>]
    ELSE IF time - c.last_timestamp > close_order_delay
            /\ ~c.closed_order_placed
    THEN IF ~held THEN [c EXCEPT !.missed = TRUE]
         ELSE [c EXCEPT !.closed_order_placed = TRUE,
                        !.actions = <<"close">>]
    ELSE c

\* One call, after the clock moved on by 0 s, 1 s or close_order_delay.
CallDetermineExecutorActions ==
    \E d \in {0, 1, close_order_delay}, active \in BOOLEAN,
       held \in BOOLEAN, mid_price \in ControllerPrices :
       LET c == DetermineExecutorActions(ControllerSelf, active, held,
                                         mid_price, now + d)
       IN  /\ now + d <= MaxControllerTime
           /\ now' = now + d
           /\ open_order_placed' = c.open_order_placed
           /\ closed_order_placed' = c.closed_order_placed
           /\ controller_last_timestamp' = c.last_timestamp
           /\ emitted' = emitted \o c.actions
           /\ controller_call' =
                 [op |-> "determine_executor_actions", active |-> active,
                  held |-> held, mid_price |-> mid_price, time |-> now + d,
                  actions |-> c.actions, raised |-> c.raised,
                  misses |-> IF c.missed THEN Min(controller_call.misses + 1, 2)
                             ELSE controller_call.misses]
           /\ UNCHANGED <<scalper_vars, maker_vars>>

NextController == CallDetermineExecutorActions

SpecController == Init /\ [][NextController]_vars

\* ------------------------------------------------------------------------
\* What the strategy emits.  The strategy is a paper trader: it submits no
\* order; the simulated buy and the simulated sell are the log records that
\* end enter_long (lines 219-226) and exit_position (lines 264-271), written
\* only when the method got that far.
\* ------------------------------------------------------------------------
EnterLongLogged(s, r) ==
    r # RaiseV /\ r # NoneV /\ s.current_portfolio_value # 0

ExitPositionLogged(s, r) ==
    s.in_position /\ r # RaiseV /\ r # NoneV /\ s.entry_price # NoneV

\* The records emitted by the tick observed as c, taken from the state before it.
TickIntents(c) ==
    IF c.outcome = "enter_long"
    THEN IF EnterLongLogged(Self, c.reads[3]) THEN <<"BUY">> ELSE <<>>
    ELSE IF c.outcome \in {"stop_loss", "profit_target"}
    THEN IF ExitPositionLogged(Self, c.reads[4]) THEN <<"SELL">> ELSE <<>>
    ELSE <<>>

\* ------------------------------------------------------------------------
\* Vocabulary of the properties
\* ------------------------------------------------------------------------
\* The call c was a tick in which every price read returned the price p.
TickAtPrice(c, p) ==
    /\ c.op = "tick"
    /\ Len(c.reads) >= 1
    /\ \A i \in 1..Len(c.reads) : c.reads[i] = p

\* The call c was a tick of an open position that got as far as the exit
\* check (first read, adjust_stop_loss read, check_exit_conditions read).
ReachedExitCheck(c) == c.op = "tick" /\ Len(c.reads) >= 3

\* The stop the exit check of a tick at price p compares against: the stop
\* as adjust_stop_loss leaves it at the start of that tick.
StopInForce(p) == AdjustStopLoss(Self, p).stop_loss_price

\* ------------------------------------------------------------------------
\* C1: at most one position is open at any time: a tick never opens a
\* position while one is open, and enter_long invoked while in_position is
\* true is rejected, leaving entry_price, profit_target_price and
\* stop_loss_price of the open position unchanged.
\* (Stated as claimed; enter_long has no in_position guard.)
\* ------------------------------------------------------------------------
C1_EntryWhileLongRejected ==
    [][ in_position =>
          /\ (last_call'.op = "tick" => last_call'.outcome # "enter_long")
          /\ (last_call'.op = "enter_long" =>
                 /\ entry_price' = entry_price
                 /\ profit_target_price' = profit_target_price
                 /\ stop_loss_price' = stop_loss_price) ]_vars

\* ------------------------------------------------------------------------
\* C2: while LONG, a tick whose current price is <= the stop-loss price
\* ends FLAT with consecutive_wins = 0, losing_trades incremented by exactly
\* one and winning_trades unchanged.
\* ------------------------------------------------------------------------
C2_StopLossExit ==
    [][ \A p \in Prices :
          ( /\ in_position
            /\ TickAtPrice(last_call', p)
            /\ ReachedExitCheck(last_call')
            /\ p <= StopInForce(p) )
          => ( /\ ~in_position'
               /\ consecutive_wins' = 0
               /\ losing_trades' = losing_trades + 1
               /\ winning_trades' = winning_trades ) ]_vars

\* A position opened at 101.0 after two wins (stop 98.7275) was closed by a
\* tick at 98.5: the streak is back to 0 and one loss is counted.
C2_Witness ==
    /\ TickAtPrice(last_call, 985 * PriceStep)
    /\ last_call.outcome = "stop_loss"
    /\ ~in_position
    /\ consecutive_wins = 0
    /\ winning_trades = 2
    /\ losing_trades = 1
    /\ faults = 0

\* ------------------------------------------------------------------------
\* C3: while LONG with the current price above the stop-loss price, a tick
\* whose current price is >= profit_target_price ends FLAT with
\* consecutive_wins incremented by exactly one, winning_trades incremented
\* by exactly one and losing_trades unchanged.
\* ------------------------------------------------------------------------
C3_ProfitTargetExit ==
    [][ \A p \in Prices :
          ( /\ in_position
            /\ TickAtPrice(last_call', p)
            /\ ReachedExitCheck(last_call')
            /\ p > StopInForce(p)
            /\ p >= profit_target_price )
          => ( /\ ~in_position'
               /\ consecutive_wins' = consecutive_wins + 1
               /\ winning_trades' = winning_trades + 1
               /\ losing_trades' = losing_trades ) ]_vars

\* Entry at 100.0, target 100.3, tick at exactly 100.3: first win, streak 0 -> 1.
C3_Witness ==
    /\ TickAtPrice(last_call, 1003 * PriceStep)
    /\ last_call.outcome = "profit_target"
    /\ entry_price = 1000 * PriceStep
    /\ profit_target_price = 1003 * PriceStep
    /\ ~in_position
    /\ consecutive_wins = 1
    /\ winning_trades = 1
    /\ losing_trades = 0
    /\ faults = 0

\* ------------------------------------------------------------------------
\* C4: on the FLAT to LONG transition the stop-loss price is
\* entry_price * (1 - initial_stop_loss_pct); entry at 100 with 0.005 gives
\* 99.5.  (Stated as claimed; enter_long sizes the stop from the risk
\* amount and never reads initial_stop_loss_pct.)
\* ------------------------------------------------------------------------
C4_InitialStopFromConfiguredPct ==
    [][ \A p \in Prices :
          ( ~in_position /\ in_position' /\ TickAtPrice(last_call', p) )
          => stop_loss_price' =
                (p \div 1000) * (1000 - InitialStopLossPctE3) ]_vars

\* ------------------------------------------------------------------------
\* C5: on the FLAT to LONG transition entry_price is the current price of
\* that tick and profit_target_price is entry_price * (1 + profit_target_pct);
\* both stay unchanged on every later tick until the position is closed.
\* ------------------------------------------------------------------------
C5_EntryAndTargetFixedAtEntry ==
    [][ /\ \A p \in Prices :
             ( ~in_position /\ in_position' /\ TickAtPrice(last_call', p) )
             => ( /\ entry_price' = p
                  /\ profit_target_price' =
                        (p \div 1000) * (1000 + ProfitTargetPctE3) )
        /\ ( in_position /\ in_position' /\ last_call'.op = "tick" )
             => ( /\ entry_price' = entry_price
                  /\ profit_target_price' = profit_target_price ) ]_vars

\* A position entered at 100.3 (target 100.6009) is still open, unchanged,
\* after a later tick at another price.
C5_Witness ==
    /\ in_position
    /\ last_call.op = "tick"
    /\ last_call.outcome = "hold"
    /\ entry_price = 1003 * PriceStep
    /\ profit_target_price = 1003 * 1003 * 100
    /\ last_call.reads[1] = 1000 * PriceStep
    /\ faults = 0

\* ------------------------------------------------------------------------
\* C6: on every exit pnl = (exit price - entry_price) * amount is added to
\* total_realized_pnl and total_trades is incremented by exactly one.
\* (Stated as claimed; fails when the price read inside exit_position gives
\* no price, see C9.)
\* ------------------------------------------------------------------------
C6_EveryExitRecordsTrade ==
    [][ ( in_position /\ ~in_position' /\ last_call'.op = "tick" )
        => LET x == last_call'.reads[Len(last_call'.reads)]
           IN  /\ x \in Prices \cup {0}
               /\ total_realized_pnl' = total_realized_pnl
                     + ((x - entry_price) \div 1000) * BaseOrderAmountE3
               /\ total_trades' = total_trades + 1 ]_vars

\* ------------------------------------------------------------------------
\* C7: on every exit the tracked portfolio value is increased by the
\* trade's pnl, so the portfolio value always equals the initial portfolio
\* value plus the total realized pnl.
\* (Stated as claimed; current_portfolio_value is never assigned after
\* construction.)
\* ------------------------------------------------------------------------
C7_PortfolioTracksRealizedPnl ==
    (current_portfolio_value - InitialPortfolioValue) * DecScale
        = total_realized_pnl

\* ------------------------------------------------------------------------
\* C8: after every tick total_trades = winning_trades + losing_trades, with
\* all three counters non-negative and non-decreasing.
\* (Stated as claimed; fails when the price read inside exit_position
\* fails, see C9.)
\* ------------------------------------------------------------------------
C8_TradeCountsAddUp ==
    [][ last_call'.op = "tick"
        => /\ total_trades' = winning_trades' + losing_trades'
           /\ total_trades' >= total_trades /\ total_trades >= 0
           /\ winning_trades' >= winning_trades /\ winning_trades >= 0
           /\ losing_trades' >= losing_trades /\ losing_trades >= 0 ]_vars

\* ------------------------------------------------------------------------
\* C9: a tick leaves no partial update: after a tick of an open position
\* either the whole exit took effect (position FLAT, total_trades + 1,
\* exactly one of winning_trades / losing_trades + 1, pnl added,
\* consecutive_wins updated) or none of these changed.
\* (Stated as claimed; the callers of exit_position update the counters
\* whether or not exit_position completed.)
\* ------------------------------------------------------------------------
C9_ExitIsAllOrNothing ==
    [][ ( in_position /\ last_call'.op = "tick" )
        => LET x == last_call'.reads[Len(last_call'.reads)]
               pnl == ((x - entry_price) \div 1000) * BaseOrderAmountE3
               lost == /\ losing_trades' = losing_trades + 1
                       /\ winning_trades' = winning_trades
                       /\ consecutive_wins' = 0
               won == /\ winning_trades' = winning_trades + 1
                      /\ losing_trades' = losing_trades
                      /\ consecutive_wins' = consecutive_wins + 1
               whole == /\ ~in_position'
                        /\ total_trades' = total_trades + 1
                        /\ x \in Prices \cup {0}
                        /\ total_realized_pnl' = total_realized_pnl + pnl
                        /\ (lost \/ won)
               nothing == /\ in_position'
                          /\ total_trades' = total_trades
                          /\ winning_trades' = winning_trades
                          /\ losing_trades' = losing_trades
                          /\ total_realized_pnl' = total_realized_pnl
                          /\ consecutive_wins' = consecutive_wins
           IN  whole \/ nothing ]_vars

\* ------------------------------------------------------------------------
\* C10: no fault escapes the tick boundary: whatever read raises, tick()
\* returns normally, and the next tick that comes more than 1.0 s after the
\* last processed one is processed as usual (there is no halted state).
\* ------------------------------------------------------------------------
C10_NoFaultEscapesTick ==
    [][ last_call'.op = "tick"
        => /\ ~last_call'.escaped
           /\ last_call'.ts - last_timestamp > 1
                => /\ last_call'.outcome # "throttled"
                   /\ last_timestamp' = last_call'.ts ]_vars

\* The tick right after a tick in which a price read raised accepted its
\* sample and went on to the position logic.
C10_Witness ==
    /\ last_call.op = "tick"
    /\ last_call.after_raise
    /\ ~last_call.escaped
    /\ last_call.outcome \in {"no_signal", "enter_long", "hold",
                              "stop_loss", "profit_target"}
    /\ last_timestamp = last_call.ts

\* ------------------------------------------------------------------------
\* C11: risk state and performance stats are updated only at position
\* close: a tick that does not close a position (stays FLAT, stays LONG, or
\* goes FLAT to LONG) leaves consecutive_wins, the portfolio value,
\* total_realized_pnl, total_trades, winning_trades and losing_trades
\* unchanged.
\* (Stated as claimed; when the price read inside exit_position raises the
\* position stays LONG and the caller still updates the counters, see C9.)
\* ------------------------------------------------------------------------
C11_StatsChangeOnlyAtClose ==
    [][ ( last_call'.op = "tick" /\ ~(in_position /\ ~in_position') )
        => UNCHANGED <<consecutive_wins, current_portfolio_value,
                       total_realized_pnl, total_trades, winning_trades,
                       losing_trades>> ]_vars

\* ------------------------------------------------------------------------
\* C15: consecutive_wins is always >= 0 and, after every tick, equals the
\* number of profit-target exits since the most recent stop-loss exit: a
\* tick that closes the position at the stop sets it to 0, a tick that
\* closes the position at the target adds one, every other tick keeps it.
\* (Stated as claimed; a failed price read inside exit_position leaves the
\* position open while the streak is still updated, see C9.)
\* ------------------------------------------------------------------------
C15_StreakCountsTargetExits ==
    [][ last_call'.op = "tick"
        => LET closed == in_position /\ ~in_position'
           IN  /\ consecutive_wins' >= 0
               /\ consecutive_wins' =
                     IF closed /\ last_call'.outcome = "stop_loss" THEN 0
                     ELSE IF closed /\ last_call'.outcome = "profit_target"
                          THEN consecutive_wins + 1
                     ELSE consecutive_wins ]_vars

\* ------------------------------------------------------------------------
\* C17: after any stop-loss exit consecutive_wins is 0, it stays 0 while the
\* strategy is FLAT, and the next entry sizes its stop with exactly
\* base_risk_amount: stop distance = base_risk_amount / portfolio value.
\* ------------------------------------------------------------------------
C17_BaseRiskAfterStopLoss ==
    [][ last_call'.op = "tick"
        => /\ last_call'.outcome = "stop_loss" => consecutive_wins' = 0
           /\ (~in_position /\ ~in_position')
                => consecutive_wins' = consecutive_wins
           /\ ( /\ ~in_position /\ in_position'
                /\ consecutive_wins = 0
                /\ entry_price' \in Prices )
                => stop_loss_price' = entry_price'
                      - ((entry_price' \div InitialPortfolioValue)
                            * BaseRiskAmount) ]_vars

\* After two wins and a stop-loss exit, the next entry (at 98.5) has its
\* stop 1.5% below the entry price.
C17_Witness ==
    /\ last_call.op = "tick"
    /\ last_call.outcome = "enter_long"
    /\ in_position
    /\ winning_trades = 2
    /\ losing_trades = 1
    /\ consecutive_wins = 0
    /\ entry_price = 985 * PriceStep
    /\ stop_loss_price = 985 * 985 * 100

\* ------------------------------------------------------------------------
\* C19: while a position is open the per-tick stop recomputation never
\* loosens the stop: stop_loss_price after adjust_stop_loss is never lower
\* than before the call.
\* (Stated as claimed; adjust_stop_loss recomputes the stop unconditionally
\* from the current streak.)
\* ------------------------------------------------------------------------
C19_StopNeverLoosened ==
    [][ ( in_position /\ last_call'.op = "tick" )
        => stop_loss_price' >= stop_loss_price ]_vars

\* ------------------------------------------------------------------------
\* C20: the entry decision is false while the price history holds fewer
\* than 50 samples, so no FLAT to LONG transition happens before 50 prices
\* were accepted; otherwise it is true exactly when the volatility signal
\* is true and the current price is strictly greater than the mean of the
\* last 50 prices.
\* ------------------------------------------------------------------------
C20_EntryNeedsSignalAndTrend ==
    [][ ( last_call'.op = "tick" /\ ~in_position
          /\ last_call'.outcome \in {"no_signal", "enter_long"} )
        => LET h == price_history'
               n == Len(h)
               r == last_call'.reads[2]
               decided == last_call'.outcome = "enter_long"
           IN  /\ n < SmaWindow => ~decided
               /\ n >= SmaWindow =>
                    \A tie \in BOOLEAN :
                       decided <=>
                          /\ VixSignal(h, tie)
                          /\ r \in Prices
                          /\ 50 * (r \div PriceStep)
                                > SumOver(h, n - 49, n)
               /\ in_position' => decided /\ accepted' >= 50 ]_vars

\* The 50th sample of a flat market at 98.5: the volatility signal holds,
\* the price equals the SMA, and no position is opened.
C20_Witness ==
    /\ last_call.op = "tick"
    /\ last_call.outcome = "no_signal"
    /\ Len(price_history) = SmaWindow
    /\ \A tie \in BOOLEAN : VixSignal(price_history, tie)
    /\ 50 * (last_call.reads[2] \div PriceStep)
          = SumOver(price_history, 1, 50)
    /\ ~in_position

\* ------------------------------------------------------------------------
\* C12: an exit attempted while FLAT is a no-op: exit_position,
\* check_exit_conditions and adjust_stop_loss invoked with no open position
\* change no state (position fields, stop, counters, pnl, consecutive_wins)
\* and raise no error.
\* ------------------------------------------------------------------------
C12_ExitWhileFlatIsNoOp ==
    [][ ( /\ ~in_position
          /\ last_call'.op \in {"exit_position", "check_exit_conditions",
                                "adjust_stop_loss"} )
        => /\ UNCHANGED <<in_position, entry_price, profit_target_price,
                          stop_loss_price, last_stop_loss, consecutive_wins,
                          current_portfolio_value, total_realized_pnl,
                          total_trades, winning_trades, losing_trades,
                          price_history>>
           /\ ~last_call'.escaped
           /\ ~HasRaise(last_call'.reads) ]_vars

\* exit_position was called on a FLAT strategy that had already completed a
\* trade, and returned at its guard without reading a price.
C12_Witness ==
    /\ last_call.op = "exit_position"
    /\ last_call.reads = <<>>
    /\ ~in_position
    /\ total_trades = 1
    /\ entry_price = 1000 * PriceStep

\* ------------------------------------------------------------------------
\* C16: the risk amount used for stops equals
\* min(base_risk_amount * (1 + 0.25 * consecutive_wins), max_risk_amount)
\* for every consecutive_wins >= 0 (wins = 2 gives 225); it is
\* non-decreasing in consecutive_wins and never exceeds max_risk_amount.
\* Observed on the stop a sizing call derives: with a positive portfolio
\* value pv, stop = entry - entry * risk / pv.
\* ------------------------------------------------------------------------
C16_RiskAmountFormula ==
    [][ /\ \A w \in 0..MaxWins :
             /\ RiskAmountX4(w) <= RiskAmountX4(w + 1)
             /\ RiskAmountX4(w) <= 4 * MaxRiskAmount
        /\ RiskAmountX4(2) = 4 * 225
        /\ ( /\ last_call'.op \in {"enter_long", "adjust_stop_loss"}
             /\ current_portfolio_value > 0
             /\ last_call'.reads # <<>>
             /\ last_call'.reads[1] \in Prices
             /\ entry_price' \in Prices )
           => LET w == consecutive_wins
                  scaled == 150 * (4 + w)
                  risk4 == IF scaled <= 1200 THEN scaled ELSE 1200
                  e == entry_price'
              IN  /\ stop_loss_price' =
                        e - ((e \div (2 * current_portfolio_value)) * risk4)
                               \div 2
                  /\ stop_loss_price' >=
                        e - (e \div current_portfolio_value) * MaxRiskAmount
       ]_vars

\* An entry at 100.0 with a streak of 6 and a portfolio of 10000: the risk
\* amount is capped at 300 and the stop is 97.0.
C16_Witness ==
    /\ last_call.op = "enter_long"
    /\ consecutive_wins = 6
    /\ current_portfolio_value = InitialPortfolioValue
    /\ in_position
    /\ entry_price = 1000 * PriceStep
    /\ stop_loss_price = 970 * PriceStep

\* ------------------------------------------------------------------------
\* C13: a price sample that is not strictly positive (zero, negative or
\* missing) is rejected: it never enters the price history and the tick is
\* skipped entirely, leaving price history, position, risk state and
\* performance stats unchanged.
\* (Stated as claimed; tick() rejects None and 0 only.)
\* ------------------------------------------------------------------------
C13_NonPositiveSampleRejected ==
    [][ ( /\ last_call'.op = "tick"
          /\ last_call'.reads # <<>>
          /\ last_call'.reads[1] # RaiseV
          /\ last_call'.reads[1] <= 0 )
        => UNCHANGED <<price_history, in_position, entry_price,
                       profit_target_price, stop_loss_price, last_stop_loss,
                       consecutive_wins, current_portfolio_value,
                       total_realized_pnl, total_trades, winning_trades,
                       losing_trades>> ]_vars

\* ------------------------------------------------------------------------
\* C14: the price history holds at most 100 samples in the order in which
\* they were accepted: each accepted sample is appended at the end and, on
\* overflow, exactly the oldest sample is evicted; a tick that accepts no
\* sample leaves the history as it is.
\* ------------------------------------------------------------------------
C14_HistoryIsBoundedFifo ==
    [][ last_call'.op = "tick"
        => /\ Len(price_history') <= HistoryCap
           /\ IF last_call'.outcome \in {"throttled", "not_ready",
                                         "price_error", "no_price"}
              THEN price_history' = price_history
              ELSE LET x == last_call'.reads[1] \div PriceStep
                   IN  price_history' =
                          IF Len(price_history) < HistoryCap
                          THEN Append(price_history, x)
                          ELSE Append(Tail(price_history), x) ]_vars

\* The 101st accepted sample (101.0) was appended to a full history and the
\* first sample (98.5) was evicted: the history now starts with the second
\* sample (100.0) and ends with 100.3, 101.0.
C14_Witness ==
    /\ accepted = HistoryCap + 1
    /\ Len(price_history) = HistoryCap
    /\ price_history[1] = 1000
    /\ price_history[HistoryCap - 1] = 1003
    /\ price_history[HistoryCap] = 1010
    /\ last_call.op = "tick"
    /\ last_call.reads[1] = 1010 * PriceStep

\* ------------------------------------------------------------------------
\* C22: while the price history holds fewer than pd = 22 samples the
\* indicator is not computable: such a tick still appends the accepted
\* price to the history but performs no entry, no stop adjustment and no
\* exit, and reports no failure.
\* ------------------------------------------------------------------------
C22_BuildingTickOnlyAppends ==
    [][ ( /\ last_call'.op = "tick"
          /\ last_call'.outcome \notin {"throttled", "not_ready",
                                        "price_error", "no_price"}
          /\ Len(price_history) + 1 < Pd )
        => /\ price_history' =
                 Append(price_history, last_call'.reads[1] \div PriceStep)
           /\ last_call'.outcome = "building"
           /\ Len(last_call'.reads) = 1
           /\ ~last_call'.escaped
           /\ UNCHANGED <<in_position, entry_price, profit_target_price,
                          stop_loss_price, last_stop_loss, consecutive_wins,
                          current_portfolio_value, total_realized_pnl,
                          total_trades, winning_trades, losing_trades>> ]_vars

\* The 21st sample was accepted: the history advanced and nothing else ran.
C22_Witness ==
    /\ last_call.op = "tick"
    /\ last_call.outcome = "building"
    /\ Len(price_history) = Pd - 1
    /\ price_history[Pd - 1] = last_call.reads[1] \div PriceStep
    /\ ~in_position

\* ------------------------------------------------------------------------
\* C28: order intents follow the position lifecycle: every FLAT to LONG
\* transition emits exactly one BUY intent, every LONG to FLAT transition
\* emits exactly one SELL intent, and a tick that stays LONG or stays FLAT
\* emits none (so the intents alternate BUY, SELL, BUY, ...).
\* (Stated as claimed, on the simulated buy / sell records; a position
\* opened or closed by a method that failed half way emits nothing.)
\* ------------------------------------------------------------------------
C28_IntentsFollowLifecycle ==
    [][ last_call'.op = "tick"
        => LET e == TickIntents(last_call')
           IN  /\ (~in_position /\ in_position') => e = <<"BUY">>
               /\ (in_position /\ ~in_position') => e = <<"SELL">>
               /\ (in_position <=> in_position') => e = <<>> ]_vars

\* ------------------------------------------------------------------------
\* C30: a single tick changes the position state at most once: a tick that
\* starts FLAT evaluates the entry only (it never adjusts the stop or runs
\* the exit check), and a tick that starts LONG never enters, so a position
\* closed by a tick is not reopened by the same tick.
\* ------------------------------------------------------------------------
C30_OneTransitionPerTick ==
    [][ last_call'.op = "tick"
        => /\ ~in_position
                => /\ last_call'.outcome \notin {"hold", "stop_loss",
                                                 "profit_target"}
                   /\ Len(last_call'.reads) <= 3
                   /\ ( last_call'.outcome = "enter_long"
                        /\ last_call'.reads[3] \in Prices ) => in_position'
           /\ in_position
                => /\ last_call'.outcome # "enter_long"
                   /\ entry_price' = entry_price
                   /\ profit_target_price' = profit_target_price
                   /\ ( last_call'.outcome \in {"stop_loss", "profit_target"}
                        /\ last_call'.reads[4] \in Prices ) => ~in_position'
       ]_vars

\* A tick closed the position at the target although the entry signal held
\* at that very price: the strategy is FLAT after the tick.
C30_Witness ==
    /\ last_call.op = "tick"
    /\ last_call.outcome = "profit_target"
    /\ ~in_position
    /\ faults = 0
    /\ \A fl \in Roundings :
          ShouldEnterLong(price_history, last_call.reads[1], fl)

\* ------------------------------------------------------------------------
\* C24: percentileRangeHigh is the highPercentile-th percentile of the last
\* lb indicator values, by linear interpolation between order statistics:
\* for 0.85 and lb = 50 the rank is 0.85 * 49 = 41.65, i.e. the 42nd
\* smallest value plus 0.65 of the step to the 43rd smallest.
\* (Stated as claimed; the code scales the window maximum instead.)
\* ------------------------------------------------------------------------
C24_RangeHighIsPercentile ==
    LET h == price_history
        n == Len(h)
        I == (n - Lb + 1)..n
        KthSmallest(k) ==
            CHOOSE v \in {WvfAt(h, i) : i \in I} :
                /\ Cardinality({i \in I : ~FracLeq(v, WvfAt(h, i))}) < k
                /\ Cardinality({i \in I : FracLeq(WvfAt(h, i), v)}) >= k
        rank == PhPct * (Lb - 1)
        lo == KthSmallest(rank \div 100 + 1)
        hi == KthSmallest(rank \div 100 + 2)
        rh == RangeHigh(h)
    IN  n - Pd + 1 >= Lb
            \* range_high = lo + (rank % 100) / 100 * (hi - lo)
            => LET lhs == BigScale(BigScale(BigOf(100 * rh.num), lo.den),
                                   hi.den)
                   rhs == BigScale(
                            BigAdd(BigScale(BigOf((100 - (rank % 100))
                                                  * lo.num), hi.den),
                                   BigScale(BigOf((rank % 100) * hi.num),
                                            lo.den)),
                            rh.den)
               IN  lhs = rhs

\* ------------------------------------------------------------------------
\* C21: the volatility signal is true exactly when the value is at or above
\* a band that is defined; the comparison is inclusive, so a value equal to
\* the upper band (the degenerate value = band = 0 included) gives a true
\* signal.  For the maker, whose only band is the upper band over the last
\* bb_length stored values: once that band is defined, a computation
\* signals exactly when value >= upper band.
\* (Stated as claimed; the maker compares with >.)
\* ------------------------------------------------------------------------
C21_SignalIsInclusive ==
    [][ ( /\ maker_call'.calcs = 1
          /\ Len(_price_history') >= lookback_period
          /\ Len(_vix_history) >= bb_length )
        => LET vh == _vix_history
               n == Len(vh)
               sq == [i \in 1..n |-> vh[i] * vh[i]]
               S == SumOver(vh, n - bb_length + 1, n)
               Q == SumOver(sq, n - bb_length + 1, n)
               d == bb_length * maker_call'.value - S
           IN  maker_call'.signal
                  <=> ( /\ d >= 0
                        /\ d * d >= bb_std * bb_std * (bb_length * Q - S * S) )
      ]_vars

\* ------------------------------------------------------------------------
\* C23: for every window of at least pd positive prices the indicator value
\* is (max(last pd prices) - most recent price) / max(last pd prices) x 100
\* (here to the resolution of 1/WvfScale percent) and is >= 0; it is the
\* value stored; 21 prices of 100 followed by 90 give exactly 10.
\* ------------------------------------------------------------------------
C23_ValueIsDrawdownFromWindowHigh ==
    [][ ( /\ maker_call'.calcs >= 1
          /\ Len(_price_history') >= lookback_period )
        => LET ph == _price_history'
               n == Len(ph)
               hi == MaxOf({ph[j] : j \in (n - lookback_period + 1)..n})
               v == maker_call'.value
               full == (hi - ph[n]) * 100 * WvfScale
           IN  /\ v >= 0
               /\ v * hi <= full
               /\ full < (v + 1) * hi
               /\ _vix_history'[Len(_vix_history')] = v
               /\ ( /\ n = lookback_period
                    /\ \A j \in 1..(n - 1) : ph[j] = 1000
                    /\ ph[n] = 900 ) => v = 10 * WvfScale ]_vars

\* The 22nd price is 90.0 after 21 prices of 100.0: the value is 10 percent.
C23_Witness ==
    /\ maker_call.op = "tick"
    /\ maker_call.calcs = 1
    /\ Len(_price_history) = lookback_period
    /\ \A j \in 1..(lookback_period - 1) : _price_history[j] = 1000
    /\ _price_history[lookback_period] = 900
    /\ maker_call.value = 10 * WvfScale
    /\ _vix_history = <<10 * WvfScale>>

\* ------------------------------------------------------------------------
\* C25: the indicator computation is deterministic and read-only: called
\* again on an unchanged price window it changes no stored history and
\* returns the same (value, signal) as the call before.
\* (Stated as claimed; the maker appends to its indicator history on every
\* call.)
\* ------------------------------------------------------------------------
C25_ComputationIsReadOnly ==
    [][ maker_call'.op = "calculate_cm_williams_vix"
        => /\ _vix_history' = _vix_history
           /\ _price_history' = _price_history
           /\ maker_call.op = "calculate_cm_williams_vix"
                => /\ maker_call'.value = maker_call.value
                   /\ maker_call'.signal = maker_call.signal ]_vars

\* ------------------------------------------------------------------------
\* C29: the indicator history is a bounded ring buffer like the price
\* history: its length never exceeds the capacity, and a tick adds at most
\* one value however often the indicator is read during the tick.
\* (Stated as claimed, with the capacity the maker applies to its price
\* history.)
\* ------------------------------------------------------------------------
C29_IndicatorHistoryBounded ==
    [][ maker_call'.op = "tick"
        => /\ Len(_vix_history') <= Len(_vix_history) + 1
           /\ Len(_vix_history') <= MakerHistoryCap ]_vars

\* ------------------------------------------------------------------------
\* C27: fill handling is idempotent against duplicate notifications: a fill
\* event delivered again (same order identifier, same event) leaves the
\* state and the set of placed protective orders as they were after its
\* first delivery.
\* (Stated as claimed; the maker handles every delivery as a new fill.)
\* ------------------------------------------------------------------------
C27_DuplicateFillIsNoOp ==
    [][ ( /\ maker_call'.op = "did_fill_order"
          /\ Len(delivered') = Len(delivered) + 1
          /\ \E i \in 1..Len(delivered) :
                 delivered[i] = delivered'[Len(delivered')] )
        => /\ placed_orders' = placed_orders
           /\ _last_trade_price' = _last_trade_price ]_vars

\* ------------------------------------------------------------------------
\* C31: the per-tick stop recomputation leaves stop_loss_price equal to the
\* value fixed at entry: while the position stays open, no tick changes
\* stop_loss_price.
\* (Stated as claimed; the streak can change while the position is open.)
\* ------------------------------------------------------------------------
C31_StopFixedWhileOpen ==
    [][ ( /\ last_call'.op \in {"tick", "adjust_stop_loss"}
          /\ in_position /\ in_position' )
        => stop_loss_price' = stop_loss_price ]_vars

\* ------------------------------------------------------------------------
\* C33: with a portfolio value that is positive and a price that does not
\* change within the tick, the win / loss classification agrees with the
\* sign of the realized pnl: a tick that counts a win does not lower
\* total_realized_pnl and a tick that counts a loss does not raise it.
\* ------------------------------------------------------------------------
C33_ClassificationMatchesPnlSign ==
    [][ ( /\ last_call'.op = "tick"
          /\ \E p \in Prices : TickAtPrice(last_call', p)
          /\ current_portfolio_value > 0 )
        => /\ winning_trades' > winning_trades
                => total_realized_pnl' >= total_realized_pnl
           /\ losing_trades' > losing_trades
                => total_realized_pnl' <= total_realized_pnl ]_vars

\* A steady tick closed a position at the stop: one loss, a negative pnl.
C33_Witness ==
    /\ last_call.op = "tick"
    /\ last_call.outcome = "stop_loss"
    /\ \E p \in Prices : TickAtPrice(last_call, p)
    /\ ~in_position
    /\ losing_trades = 1
    /\ total_trades = 1
    /\ total_realized_pnl < 0

\* ------------------------------------------------------------------------
\* C34: the minimum-tick-interval throttle only drops ticks: a tick whose
\* timestamp is not more than 1.0 s after the last processed tick changes
\* no state at all, and the timestamps of processed ticks are strictly
\* increasing with gaps greater than 1.0 s.
\* ------------------------------------------------------------------------
C34_ThrottleOnlyDrops ==
    [][ last_call'.op = "tick"
        => /\ last_call'.ts - last_timestamp <= 1
                => /\ last_call'.outcome = "throttled"
                   /\ last_call'.reads = <<>>
                   /\ UNCHANGED <<price_history, in_position, entry_price,
                                  profit_target_price, stop_loss_price,
                                  last_stop_loss, consecutive_wins,
                                  current_portfolio_value, total_realized_pnl,
                                  total_trades, winning_trades, losing_trades,
                                  last_timestamp, ready_to_trade,
                                  last_price_log>>
           /\ last_call'.ts - last_timestamp > 1
                => /\ last_call'.outcome # "throttled"
                   /\ last_timestamp' = last_call'.ts
           /\ last_timestamp' # last_timestamp
                => last_timestamp' - last_timestamp > 1 ]_vars

\* A tick 1.0 s after a processed tick of an open position was dropped.
C34_Witness ==
    /\ last_call.op = "tick"
    /\ last_call.outcome = "throttled"
    /\ last_call.ts = last_timestamp + 1
    /\ in_position
    /\ Len(price_history) >= Pd

\* ------------------------------------------------------------------------
\* C32: at most one exit and one trade record happen per tick, and the
\* stop-loss test has precedence: if the price read by the exit check
\* satisfies both price <= stop_loss_price and price >= profit_target_price
\* the exit is counted as a loss (consecutive_wins reset to 0) and never as
\* a win.
\* In a tick of an open position the exit check makes the tick's third
\* read (after the sample and the read of adjust_stop_loss) and compares it
\* with the stop as recomputed in that tick; neither the exit check nor
\* exit_position() assigns the stop or the target.
\* ------------------------------------------------------------------------
C32_StopLossHasPrecedence ==
    [][ last_call'.op = "tick"
        => /\ total_trades' >= total_trades
           /\ total_trades' <= total_trades + 1
           /\ winning_trades' >= winning_trades
           /\ losing_trades' >= losing_trades
           /\ winning_trades' + losing_trades'
                 <= winning_trades + losing_trades + 1
           /\ ( /\ in_position
                /\ Len(last_call'.reads) >= 3
                /\ last_call'.reads[3] >= 0
                /\ last_call'.reads[3] <= stop_loss_price'
                /\ last_call'.reads[3] >= profit_target_price' )
              => /\ losing_trades' = losing_trades + 1
                 /\ winning_trades' = winning_trades
                 /\ consecutive_wins' = 0 ]_vars

\* A position entered at a read of 0 (entry, stop and target all 0) was
\* closed by a tick whose exit check read 0, a price at the stop and at the
\* target: the exit was counted as a loss, with one trade recorded.
C32_Witness ==
    /\ last_call.op = "tick"
    /\ last_call.outcome = "stop_loss"
    /\ Len(last_call.reads) = 4
    /\ last_call.reads[3] = 0
    /\ last_call.reads[3] <= stop_loss_price
    /\ last_call.reads[3] >= profit_target_price
    /\ entry_price = 0
    /\ ~in_position
    /\ losing_trades = 1
    /\ winning_trades = 0
    /\ total_trades = 1
    /\ consecutive_wins = 0

\* ------------------------------------------------------------------------
\* C35: in the maker the price history never holds more than
\* max(2 x lookback_period, 2 x bb_length) prices after an operation, and
\* once lookback_period prices were accepted it never holds fewer than
\* lookback_period: an accepted price is appended and, on overflow, the
\* most recent lookback_period prices are kept in order; every computation
\* from then on yields a value (it is appended to the indicator history).
\* ------------------------------------------------------------------------
C35_MakerHistoryStaysComputable ==
    [][ /\ Len(_price_history') <= MakerHistoryCap
        /\ maker_samples' >= lookback_period
              => Len(_price_history') >= lookback_period
        /\ maker_samples' = maker_samples + 1
              => LET n == Len(_price_history')
                     h1 == Append(_price_history, _price_history'[n])
                 IN  _price_history' =
                        IF Len(h1) > MakerHistoryCap
                        THEN SubSeq(h1, Len(h1) - lookback_period + 1, Len(h1))
                        ELSE h1
        /\ maker_samples >= lookback_period
              => Len(_vix_history') = Len(_vix_history) + maker_call'.calcs
      ]_vars

\* The 45th price was accepted: the history was cut back to the last
\* lookback_period prices and the indicator was computed from them.
C35_Witness ==
    /\ maker_samples = MakerHistoryCap + 1
    /\ Len(_price_history) = lookback_period
    /\ maker_call.op = "tick"
    /\ maker_call.calcs >= 1
    /\ Len(_vix_history) >= MakerHistoryCap + 2 - lookback_period

\* ------------------------------------------------------------------------
\* C36 (as claimed): in create_order_proposals, for min_spread <= max_spread
\* the adjusted spread lies in [min_spread, max_spread] for either
\* volatility state and any multipliers; the proposals are both empty or
\* exactly one BUY below and one SELL above the reference price, both for
\* order_amount; nothing is proposed when the market is not ready, the
\* price is not positive or the held position has reached the limit.
\* ------------------------------------------------------------------------
C36_ProposalsAsClaimed ==
    [][ ( /\ proposal_call'.op = "create_order_proposals"
          /\ _min_spread <= _max_spread )
        => LET c == proposal_call'
               unit == c.price \div 10000
               size == IF c.position = NoneV THEN 0 ELSE Abs(c.position)
           IN  /\ \/ c.buy = <<>> /\ c.sell = <<>>
                  \/ /\ Len(c.buy) = 1 /\ Len(c.sell) = 1
                     /\ c.buy[1].side = "BUY" /\ c.sell[1].side = "SELL"
                     /\ c.buy[1].amount = _order_amount
                     /\ c.sell[1].amount = _order_amount
                     /\ c.buy[1].price < c.price
                     /\ c.sell[1].price > c.price
                     /\ c.buy[1].price >= unit * (10000 - _max_spread)
                     /\ c.buy[1].price <= unit * (10000 - _min_spread)
                     /\ c.sell[1].price >= unit * (10000 + _min_spread)
                     /\ c.sell[1].price <= unit * (10000 + _max_spread)
               /\ ( ~c.ready \/ c.price <= 0 \/ size >= _max_position_size )
                     => c.buy = <<>> /\ c.sell = <<>> ]_vars

\* C36 (amended): the same for 0 < min_spread <= max_spread.
C36_ProposalsBracketReference ==
    [][ ( /\ proposal_call'.op = "create_order_proposals"
          /\ 0 < _min_spread
          /\ _min_spread <= _max_spread )
        => LET c == proposal_call'
               unit == c.price \div 10000
               size == IF c.position = NoneV THEN 0 ELSE Abs(c.position)
           IN  /\ \/ c.buy = <<>> /\ c.sell = <<>>
                  \/ /\ Len(c.buy) = 1 /\ Len(c.sell) = 1
                     /\ c.buy[1].side = "BUY" /\ c.sell[1].side = "SELL"
                     /\ c.buy[1].amount = _order_amount
                     /\ c.sell[1].amount = _order_amount
                     /\ c.buy[1].price < c.price
                     /\ c.sell[1].price > c.price
                     /\ c.buy[1].price >= unit * (10000 - _max_spread)
                     /\ c.buy[1].price <= unit * (10000 - _min_spread)
                     /\ c.sell[1].price >= unit * (10000 + _min_spread)
                     /\ c.sell[1].price <= unit * (10000 + _max_spread)
               /\ ( ~c.ready \/ c.price <= 0 \/ size >= _max_position_size )
                     => c.buy = <<>> /\ c.sell = <<>> ]_vars

\* In high volatility the widened spread was cut to max_spread: the buy is
\* proposed at reference * (1 - max_spread).
C36_Witness ==
    /\ proposal_call.op = "create_order_proposals"
    /\ proposal_call.high
    /\ 0 < _min_spread /\ _min_spread < _max_spread
    /\ Len(proposal_call.buy) = 1 /\ Len(proposal_call.sell) = 1
    /\ proposal_call.buy[1].price =
          (proposal_call.price \div 10000) * (10000 - _max_spread)
    /\ proposal_call.buy[1].price < proposal_call.price

\* ------------------------------------------------------------------------
\* C37: over any sequence of determine_executor_actions calls the
\* controller emits at most one open action and at most one close action,
\* the close never precedes the open, and open_order_placed and
\* closed_order_placed never return to false once set.
\* ------------------------------------------------------------------------
C37_OneOpenThenOneClose ==
    [][ controller_call'.op = "determine_executor_actions"
        => /\ emitted' \in {<<>>, <<"open">>, <<"open", "close">>}
           /\ open_order_placed => open_order_placed'
           /\ closed_order_placed => closed_order_placed'
           /\ open_order_placed' <=> Len(emitted') >= 1
           /\ closed_order_placed' <=> Len(emitted') = 2 ]_vars

\* Both actions were emitted and a later call, free to act, returned none.
C37_Witness ==
    /\ emitted = <<"open", "close">>
    /\ controller_call.op = "determine_executor_actions"
    /\ controller_call.actions = <<>>
    /\ ~controller_call.active
    /\ controller_call.held
    /\ controller_call.mid_price > 0
    /\ open_order_placed /\ closed_order_placed

\* ------------------------------------------------------------------------
\* C38: the controller emits no action while any executor is active, and
\* emits the close action only when more than close_order_delay has
\* elapsed since the open action and the position is held; when no
\* position is found no close action is emitted and closed_order_placed
\* stays false, so the close is emitted by a later call that finds it.
\* ------------------------------------------------------------------------
C38_CloseNeedsDelayAndPosition ==
    [][ controller_call'.op = "determine_executor_actions"
        => LET c == controller_call'
               due == /\ ~c.active
                      /\ open_order_placed /\ ~closed_order_placed
                      /\ c.time - controller_last_timestamp > close_order_delay
           IN  /\ c.active
                    => /\ c.actions = <<>>
                       /\ UNCHANGED <<open_order_placed, closed_order_placed,
                                      controller_last_timestamp>>
               /\ c.actions = <<"close">>
                    => /\ due /\ c.held
                       /\ closed_order_placed'
               /\ (due /\ ~c.held)
                    => /\ c.actions = <<>>
                       /\ ~closed_order_placed'
                       /\ c.misses > controller_call.misses
                          \/ c.misses = 2
               /\ (due /\ c.held) => c.actions = <<"close">> ]_vars

\* The close was emitted by a call that found the position after an
\* earlier call had not found it.
C38_Witness ==
    /\ controller_call.op = "determine_executor_actions"
    /\ controller_call.actions = <<"close">>
    /\ controller_call.misses >= 1
    /\ controller_call.held
    /\ controller_call.time - controller_last_timestamp > close_order_delay
    /\ closed_order_placed

=============================================================================
